---- MODULE Spec2Model ----
(***************************************************************************)
(* A model of the gora HTTP router (package gora): compilation of path     *)
(* templates into anchored regular expressions, the route table, route     *)
(* groups, middleware composition and request dispatch.                    *)
(*                                                                         *)
(* Go strings are modelled as sequences of one-character strings, so that  *)
(* strings.Split, strings.Contains, slicing and concatenation are computed *)
(* character by character as the code computes them.  ToStr renders such a *)
(* sequence as a TLA+ string for comparison with literals of the tests.    *)
(***************************************************************************)
EXTENDS Naturals, Sequences, FiniteSets, TLC

VARIABLES
    StrictSlash,   \* gora.StrictSlash, the package-level option
    routes,        \* Router.routes
    mwArr,         \* backing array of Router.middleware (NilMw in unused slots)
    mwLen,         \* len(Router.middleware); cap(Router.middleware) = Len(mwArr)
    notFound,      \* Router.notFound (NilHandler or a composed handler)
    groups,        \* the RouterGroup values created by Router.Group
    serving,       \* the server has been started (Router.Run)
    reqs,          \* the ServeHTTP calls, one record per serving goroutine
    lastReg,       \* history: the last registration call and how it ended
    cTemplate,     \* input of a stand-alone pathPrefixToRegex call
    cResult,       \* its result
    ctx,           \* a Context with its Writer, used directly (not by a chain)
    clients,       \* WebsocketHandler.clients: the keys of the map
    send,          \* Client.send of every client: the queue and its closes
    done,          \* WebsocketHandler.done: how many times it was closed
    once,          \* the sync.Once of the quit function has fired
    hubPc,         \* the goroutine running WebsocketHandler.Run
    pumps,         \* per client: the pumps that have yet to ask to unregister
    app,           \* an application goroutine inside BroadCastMessage
    hubLog,        \* history of the hub: who touched the set, what was delivered
    mu,            \* Context.mu of one request's Context
    cdata,         \* Context.data of that Context
    gor,           \* the goroutines working on that request
    intCall        \* a call of Context.IntParam: its inputs and its result

hubVars == <<clients, send, done, once, hubPc, pumps, app, hubLog>>

storeVars == <<mu, cdata, gor, intCall>>

vars == <<StrictSlash, routes, mwArr, mwLen, notFound, groups, serving, reqs,
          lastReg, cTemplate, cResult, ctx, hubVars, storeVars>>

routerVars == <<routes, mwArr, mwLen, notFound, groups, lastReg>>

--------------------------------------------------------------------------
(* Bounds of the model.                                                    *)

MaxRoutes == 2
MaxGroups == 1
MaxGlobalMw == 3
MaxGroupMw == 1
MaxInFlight == 2
MaxSegments == 2
MaxCalls == 3
MaxClients == 2
SendCap == 1
MaxQuits == 2
MaxGoroutines == 2
MaxTextLen == 3

--------------------------------------------------------------------------
(* Characters and strings.                                                 *)

Digits == {"0", "1", "2", "3", "4", "5", "6", "7", "8", "9"}

Letters ==
    {"a", "b", "c", "d", "e", "f", "g", "h", "i", "j", "k", "l", "m",
     "n", "o", "p", "q", "r", "s", "t", "u", "v", "w", "x", "y", "z",
     "A", "B", "C", "D", "E", "F", "G", "H", "I", "J", "K", "L", "M",
     "N", "O", "P", "Q", "R", "S", "T", "U", "V", "W", "X", "Y", "Z"}

WordChars == Digits \cup Letters \cup {"_"}

\* the characters of s as one string (by halves: the recursion stays shallow)
RECURSIVE ToStr(_)
ToStr(s) ==
    IF s = <<>> THEN ""
    ELSE IF Len(s) = 1 THEN s[1]
    ELSE LET half == Len(s) \div 2
         IN  ToStr(SubSeq(s, 1, half)) \o ToStr(SubSeq(s, half + 1, Len(s)))

\* s[lo:hi] of Go (0-based, hi exclusive)
Slice(s, lo, hi) == SubSeq(s, lo + 1, hi)

\* strings.Contains(s, c) for a one-character c
Contains(s, c) == \E i \in 1..Len(s) : s[i] = c

\* strings.Split(s, sep) for a one-character sep: always at least one piece
RECURSIVE Split(_, _)
Split(s, sep) ==
    IF ~Contains(s, sep) THEN <<s>>
    ELSE LET k == CHOOSE i \in 1..Len(s) :
                      s[i] = sep /\ \A j \in 1..(i - 1) : s[j] # sep
         IN  <<SubSeq(s, 1, k - 1)>> \o Split(SubSeq(s, k + 1, Len(s)), sep)

--------------------------------------------------------------------------
(* pathPrefixToRegex (regex.go).                                           *)

TyInt == <<"i", "n", "t">>
TyStr == <<"s", "t", "r">>
TyFloat == <<"f", "l", "o", "a", "t">>
TyBool == <<"b", "o", "o", "l">>
TyDate == <<"d", "a", "t", "e">>
TyDatetime == <<"d", "a", "t", "e", "t", "i", "m", "e">>

BodyInt == <<"\\", "d", "+">>
BodyStr == <<"\\", "w", "+">>
BodyFloat == <<"\\", "d", "+", "\\", ".", "\\", "d", "+">>
BodyBool == <<"t", "r", "u", "e", "|", "f", "a", "l", "s", "e">>
BodyDate ==
    <<"\\", "d", "{", "4", "}", "-", "\\", "d", "{", "2", "}", "-",
      "\\", "d", "{", "2", "}">>
BodyDatetime ==
    <<"\\", "d", "{", "4", "}", "-", "\\", "d", "{", "2", "}", "-",
      "\\", "d", "{", "2", "}", " ", "\\", "d", "{", "2", "}", ":",
      "\\", "d", "{", "2", "}", ":", "\\", "d", "{", "2", "}">>

GroupOpen == <<"(", "?", "P", "<">>

NoBody == <<>>
NoErr == <<>>

\* a type table that gives int the body of str
TypeBodyLoose(paramType) ==
    IF paramType = TyInt THEN BodyStr
    ELSE IF paramType = TyStr THEN BodyStr
    ELSE IF paramType = TyFloat THEN BodyFloat
    ELSE IF paramType = TyBool THEN BodyBool
    ELSE IF paramType = TyDate THEN BodyDate
    ELSE IF paramType = TyDatetime THEN BodyDatetime
    ELSE NoBody

\* a type table that gives an unknown type the body of str
TypeBodyDefaultStr(paramType) ==
    IF paramType = TyInt THEN BodyInt
    ELSE IF paramType = TyFloat THEN BodyFloat
    ELSE IF paramType = TyBool THEN BodyBool
    ELSE IF paramType = TyDate THEN BodyDate
    ELSE IF paramType = TyDatetime THEN BodyDatetime
    ELSE BodyStr

\* the if-chain on paramType; NoBody stands for its final else
TypeBody(paramType) ==
    IF paramType = TyInt THEN BodyInt
    ELSE IF paramType = TyStr THEN BodyStr
    ELSE IF paramType = TyFloat THEN BodyFloat
    ELSE IF paramType = TyBool THEN BodyBool
    ELSE IF paramType = TyDate THEN BodyDate
    ELSE IF paramType = TyDatetime THEN BodyDatetime
    ELSE NoBody

\* a capture group that drops the name
UnnamedGroup(paramName, body) == <<"(">> \o body \o <<")">>

\* "(?P<" + paramName + ">" + body + ")"
NamedGroup(paramName, body) ==
    GroupOpen \o paramName \o <<">">> \o body \o <<")">>

\* the body of the loop over the segments, up to the separator:
\* what one segment adds to the expression, or the error it raises
SegmentRegex(segment) ==
    IF Contains(segment, "{") /\ Contains(segment, "}")
    THEN LET paramName == Slice(segment, 1, Len(segment) - 1)
         IN  IF Contains(paramName, ":")
             THEN LET params == Split(paramName, ":")
                      pName == params[1]
                      paramType == params[2]
                  IN  IF TypeBody(paramType) = NoBody
                      THEN [add |-> <<>>,
                            err |-> <<"invalid parameter type: ">> \o paramType]
                      ELSE [add |-> NamedGroup(pName, TypeBody(paramType)),
                            err |-> NoErr]
             ELSE [add |-> NamedGroup(paramName, BodyStr), err |-> NoErr]
    ELSE [add |-> segment, err |-> NoErr]

\* a loop that writes a / after every segment but the last, empty or not
RECURSIVE SegmentLoopKeepEmpty(_, _, _)
SegmentLoopKeepEmpty(segments, index, regex) ==
    IF index = Len(segments) THEN [regex |-> regex, err |-> NoErr]
    ELSE LET segment == segments[index + 1]
             piece == SegmentRegex(segment)
             r1 == regex \o piece.add
             r2 == IF index < Len(segments) - 1
                   THEN r1 \o <<"/">> ELSE r1
         IN  IF piece.err # NoErr THEN [regex |-> <<>>, err |-> piece.err]
             ELSE SegmentLoopKeepEmpty(segments, index + 1, r2)

\* the loop over the segments; index is the 0-based index of the code
RECURSIVE SegmentLoop(_, _, _)
SegmentLoop(segments, index, regex) ==
    IF index = Len(segments) THEN [regex |-> regex, err |-> NoErr]
    ELSE LET segment == segments[index + 1]
             piece == SegmentRegex(segment)
             r1 == regex \o piece.add
             r2 == IF index < Len(segments) - 1 /\ segment # <<>>
                   THEN r1 \o <<"/">> ELSE r1
         IN  IF piece.err # NoErr THEN [regex |-> <<>>, err |-> piece.err]
             ELSE SegmentLoop(segments, index + 1, r2)

\* the strict-slash suffix and the end anchor
Finish(regex, strict) ==
    (IF strict /\ Len(regex) > 2 /\ regex[Len(regex)] # "/"
     THEN regex \o <<"/">> ELSE regex) \o <<"$">>

PathPrefixToRegexWith(pathPrefix, strict) ==
    LET r == SegmentLoop(Split(pathPrefix, "/"), 0, <<"^", "/">>)
    IN  IF r.err # NoErr THEN r
        ELSE [regex |-> Finish(r.regex, strict), err |-> NoErr]

pathPrefixToRegexServing(pathPrefix) ==
    PathPrefixToRegexWith(pathPrefix, StrictSlash \/ serving)

pathPrefixToRegex(pathPrefix) == PathPrefixToRegexWith(pathPrefix, StrictSlash)

--------------------------------------------------------------------------
(* The regexp package, as far as the expressions pathPrefixToRegex builds  *)
(* need it: "^", "$", literal characters and named groups whose body is    *)
(* one of the six bodies above.  Literal characters are word characters,   *)
(* "/" and "-": the model's templates hold no regex metacharacter in a     *)
(* literal segment.                                                        *)

LiteralChars == WordChars \cup {"/", "-"}

Bodies == {BodyInt, BodyStr, BodyFloat, BodyBool, BodyDate, BodyDatetime}

\* the first index >= i of s that holds c, or 0
IndexFrom(s, c, i) ==
    IF \E j \in i..Len(s) : s[j] = c
    THEN CHOOSE j \in i..Len(s) : s[j] = c /\ \A k \in i..(j - 1) : s[k] # c
    ELSE 0

AllIn(s, chars) == \A i \in 1..Len(s) : s[i] \in chars

\* a capture name must be a non-empty word
ValidCaptureName(name) == name # <<>> /\ AllIn(name, WordChars)

Tok(k, name, body) == [k |-> k, name |-> name, body |-> body]

\* regexp.Compile: the parsed expression, or ok = FALSE (MustCompile panics)
RECURSIVE ParseFrom(_, _)
ParseFrom(e, i) ==
    IF i > Len(e) THEN [ok |-> TRUE, prog |-> <<>>]
    ELSE IF e[i] = "("
    THEN LET gt == IndexFrom(e, ">", i)
             cl == IndexFrom(e, ")", i)
         IN  IF /\ i + 3 <= Len(e)
                /\ SubSeq(e, i, i + 3) = GroupOpen
                /\ gt > 0
                /\ cl > gt
                /\ ValidCaptureName(SubSeq(e, i + 4, gt - 1))
                /\ SubSeq(e, gt + 1, cl - 1) \in Bodies
             THEN LET rest == ParseFrom(e, cl + 1)
                  IN  [ok |-> rest.ok,
                       prog |-> <<Tok("grp", SubSeq(e, i + 4, gt - 1),
                                      SubSeq(e, gt + 1, cl - 1))>> \o rest.prog]
             ELSE [ok |-> FALSE, prog |-> <<>>]
    ELSE IF e[i] \in {"^", "$"} \cup LiteralChars
    THEN LET rest == ParseFrom(e, i + 1)
             k == IF e[i] = "^" THEN "bol" ELSE IF e[i] = "$" THEN "eol" ELSE "lit"
         IN  [ok |-> rest.ok, prog |-> <<Tok(k, <<>>, <<e[i]>>)>> \o rest.prog]
    ELSE [ok |-> FALSE, prog |-> <<>>]

Compile(expr) == ParseFrom(expr, 1)

\* s has the shape: "#" stands for one digit, any other character for itself
MatchShape(s, shape) ==
    /\ Len(s) = Len(shape)
    /\ \A i \in 1..Len(s) :
          IF shape[i] = "#" THEN s[i] \in Digits ELSE s[i] = shape[i]

DateShape == <<"#", "#", "#", "#", "-", "#", "#", "-", "#", "#">>
TimeShape == <<" ", "#", "#", ":", "#", "#", ":", "#", "#">>

\* the text s as a whole is matched by the group body
BodyMatches(body, s) ==
    IF body = BodyInt THEN s # <<>> /\ AllIn(s, Digits)
    ELSE IF body = BodyStr THEN s # <<>> /\ AllIn(s, WordChars)
    ELSE IF body = BodyFloat
    THEN \E k \in 2..(Len(s) - 1) :
            /\ s[k] = "."
            /\ AllIn(SubSeq(s, 1, k - 1), Digits)
            /\ AllIn(SubSeq(s, k + 1, Len(s)), Digits)
    ELSE IF body = BodyBool
    THEN s = <<"t", "r", "u", "e">> \/ s = <<"f", "a", "l", "s", "e">>
    ELSE IF body = BodyDate THEN MatchShape(s, DateShape)
    ELSE IF body = BodyDatetime THEN MatchShape(s, DateShape \o TimeShape)
    ELSE FALSE

SetMax(S) == CHOOSE n \in S : \A m \in S : m <= n

\* the match of prog[t..] against s[j+1..]; a group takes the longest text
\* that lets the rest match (every body is greedy)
RECURSIVE MatchFrom(_, _, _, _)
MatchFrom(prog, t, s, j) ==
    IF t > Len(prog) THEN [ok |-> TRUE, caps |-> <<>>]
    ELSE LET tok == prog[t]
             fail == [ok |-> FALSE, caps |-> <<>>]
         IN  IF tok.k = "bol"
             THEN IF j = 0 THEN MatchFrom(prog, t + 1, s, j) ELSE fail
             ELSE IF tok.k = "eol"
             THEN IF j = Len(s) THEN MatchFrom(prog, t + 1, s, j) ELSE fail
             ELSE IF tok.k = "lit"
             THEN IF j < Len(s) /\ s[j + 1] = tok.body[1]
                  THEN MatchFrom(prog, t + 1, s, j + 1) ELSE fail
             ELSE LET good == {n \in 1..(Len(s) - j) :
                                 /\ BodyMatches(tok.body, SubSeq(s, j + 1, j + n))
                                 /\ MatchFrom(prog, t + 1, s, j + n).ok}
                  IN  IF good = {} THEN fail
                      ELSE LET n == SetMax(good)
                           IN  [ok |-> TRUE,
                                caps |-> <<SubSeq(s, j + 1, j + n)>> \o
                                         MatchFrom(prog, t + 1, s, j + n).caps]

\* Regexp.MatchString: every expression of the model starts with "^"
MatchString(pattern, s) == MatchFrom(Compile(pattern).prog, 1, s, 0).ok

\* Regexp.FindStringSubmatch: the whole match, then one text per group
FindStringSubmatch(pattern, s) ==
    LET m == MatchFrom(Compile(pattern).prog, 1, s, 0)
    IN  IF m.ok THEN <<s>> \o m.caps ELSE <<>>

\* Regexp.SubexpNames: "" for the whole match, then the name of each group
SubexpNames(pattern) ==
    LET prog == Compile(pattern).prog
        grp == SelectSeq(prog, LAMBDA tk : tk.k = "grp")
    IN  <<<<>>>> \o [i \in 1..Len(grp) |-> grp[i].name]

\* compileRegex (regex.go): the compiled pattern or the value it panics with
compileRegex(pat) ==
    LET r == pathPrefixToRegex(pat)
    IN  IF r.err # NoErr THEN [pattern |-> <<>>, panic |-> r.err]
        ELSE IF ~Compile(r.regex).ok
        THEN [pattern |-> <<>>, panic |-> <<"regexp: Compile: error parsing regexp">>]
        ELSE [pattern |-> r.regex, panic |-> NoErr]

--------------------------------------------------------------------------
(* Slices of middleware: Go's append.                                      *)

NilMw == "nil"

\* the capacity append gives a grown slice of 8-byte elements
\* (runtime.growslice: double below 256 elements, then the size class)
GrowCap(oldCap, newLen) ==
    LET newcap == IF newLen > 2 * oldCap THEN newLen ELSE 2 * oldCap
    IN  IF newcap <= 4 \/ newcap % 2 = 0 THEN newcap ELSE newcap + 1

\* append(arr[:len], elems...): the array the result lies in, its length, and
\* whether that array is a new one (grown) or the array of the first operand
GoAppend(arr, len, elems) ==
    LET newLen == len + Len(elems)
    IN  IF newLen <= Len(arr)
        THEN [arr |-> [i \in 1..Len(arr) |->
                         IF i > len /\ i <= newLen THEN elems[i - len] ELSE arr[i]],
              len |-> newLen, grown |-> FALSE]
        ELSE [arr |-> [i \in 1..GrowCap(Len(arr), newLen) |->
                         IF i <= len THEN arr[i]
                         ELSE IF i <= newLen THEN elems[i - len] ELSE NilMw],
              len |-> newLen, grown |-> TRUE]

--------------------------------------------------------------------------
(* Handlers and middleware.  A HandlerFunc is a terminal handler (base)    *)
(* wrapped by middleware, wraps[1] applied first (innermost).  Terminal    *)
(* handlers are numbered: 0 is the handler given to NotFound, n > 0 the    *)
(* handler given to the n-th successful route registration.  A middleware  *)
(* of the model runs its pre-logic, calls next, runs its post-logic.       *)

\* at: for the not-found handler, the global middleware of the moment
\* NotFound was called and the middleware given to that call
NoAt == [global |-> <<>>, given |-> <<>>]

NilHandler == [base |-> 0, wraps |-> <<"nil">>, at |-> NoAt]

Terminal(h) == [base |-> h, wraps |-> <<>>, at |-> NoAt]

\* mw(handler)
Wrap(mw, handler) == [handler EXCEPT !.wraps = Append(@, mw)]

\* for _, mw := range middleware { handler = mw(handler) }
RECURSIVE WrapAll(_, _)
WrapAll(middleware, handler) ==
    IF middleware = <<>> THEN handler
    ELSE WrapAll(Tail(middleware), Wrap(Head(middleware), handler))

Event(ev, mw, h) == [ev |-> ev, mw |-> mw, h |-> h]

\* the middleware of TestRouterUse and TestInlineMiddleware: it sets its flag
\* and returns without calling next
Stoppers == {"S"}

\* handler(ctx): the events of the call, in order
RECURSIVE Call(_)
Call(handler) ==
    IF handler.wraps = <<>> THEN <<Event("handler", "-", handler.base)>>
    ELSE LET n == Len(handler.wraps)
             mw == handler.wraps[n]
             next == [handler EXCEPT !.wraps = SubSeq(@, 1, n - 1)]
         IN  IF mw \in Stoppers
             THEN <<Event("pre", mw, 0), Event("post", mw, 0)>>
             ELSE <<Event("pre", mw, 0)>> \o Call(next) \o <<Event("post", mw, 0)>>

--------------------------------------------------------------------------
(* The router: registration.                                               *)

Route(pattern, handler, method, middleware) ==
    [pattern |-> pattern, handler |-> handler, method |-> method,
     middleware |-> middleware]

NoReg ==
    [op |-> "none", prefix |-> <<>>, gmw |-> <<>>, pattern |-> <<>>, method |-> "",
     middleware |-> <<>>, strict |-> FALSE, panic |-> NoErr, before |-> <<>>]

\* the record of a registration call: the receiver (Router, or a RouterGroup
\* with its prefix and middleware), the arguments, gora.StrictSlash during the
\* call, the value the call panicked with (NoErr: it returned) and the table
\* before the call
Reg(op, prefix, gmw, pattern, method, middleware, panic) ==
    [op |-> op, prefix |-> prefix, gmw |-> gmw, pattern |-> pattern,
     method |-> method, middleware |-> middleware, strict |-> StrictSlash,
     panic |-> panic, before |-> routes]

\* Router.addRoute: the table after the call (compileRegex panics before the
\* append takes place)
addRoute(pattern, method, handler, middleware) ==
    LET c == compileRegex(pattern)
    IN  IF c.panic # NoErr THEN routes
        ELSE Append(routes, Route(c.pattern, handler, method, middleware))

\* RouterGroup.addRoute: the table after the call; g.middleware is not read
groupAddRoute(g, pattern, method, handler, middleware) ==
    LET c == compileRegex(pattern)
    IN  IF c.panic # NoErr THEN routes
        ELSE Append(routes, Route(c.pattern, handler, method, middleware))

\* a group that registers the pattern as given, without its prefix
GroupPatternNoPrefix(g, pattern) == pattern

\* g.prefix+pattern, the first argument of g.addRoute in every verb method
GroupPattern(g, pattern) == g.prefix \o pattern

\* gora.StrictSlash = b
SetStrictSlash(b) ==
    /\ ~serving
    /\ StrictSlash' = b
    /\ UNCHANGED <<routerVars, serving, reqs, cTemplate, cResult, ctx, hubVars, storeVars>>

\* a Use that also wraps the not-found handler already installed
UseWrapsNotFound(middleware) ==
    /\ ~serving
    /\ Len(middleware) > 0
    /\ mwLen + Len(middleware) <= MaxGlobalMw
    /\ LET a == GoAppend(mwArr, mwLen, middleware)
       IN  mwArr' = a.arr /\ mwLen' = a.len
    /\ notFound' = IF notFound = NilHandler THEN notFound
                   ELSE WrapAll(middleware, notFound)
    /\ UNCHANGED <<StrictSlash, routes, groups, lastReg, serving, reqs,
                   cTemplate, cResult, ctx, hubVars, storeVars>>

\* Router.Use
Use(middleware) ==
    /\ ~serving
    /\ Len(middleware) > 0
    /\ mwLen + Len(middleware) <= MaxGlobalMw
    /\ LET a == GoAppend(mwArr, mwLen, middleware)
       IN  mwArr' = a.arr /\ mwLen' = a.len
    /\ UNCHANGED <<StrictSlash, routes, notFound, groups, lastReg, serving, reqs,
                   cTemplate, cResult, ctx, hubVars, storeVars>>

\* Router.GET, Router.POST, ...: r.addRoute(pattern, method, handler, middleware...)
RouterVerb(method, pattern, middleware) ==
    /\ ~serving
    /\ Len(routes) < MaxRoutes
    /\ routes' = addRoute(pattern, method, Len(routes) + 1, middleware)
    /\ lastReg' = Reg("Router", <<>>, <<>>, pattern, method, middleware,
                      compileRegex(pattern).panic)
    /\ UNCHANGED <<StrictSlash, mwArr, mwLen, notFound, groups, serving, reqs,
                   cTemplate, cResult, ctx, hubVars, storeVars>>

\* Router.Group
Group(prefix, middleware) ==
    /\ ~serving
    /\ Len(groups) < MaxGroups
    /\ groups' = Append(groups, [prefix |-> prefix, middleware |-> middleware])
    /\ UNCHANGED <<StrictSlash, routes, mwArr, mwLen, notFound, lastReg, serving,
                   reqs, cTemplate, cResult, ctx, hubVars, storeVars>>

\* RouterGroup.Use
GroupUse(gi, middleware) ==
    /\ ~serving
    /\ gi \in 1..Len(groups)
    /\ Len(groups[gi].middleware) + Len(middleware) <= MaxGroupMw
    /\ groups' = [groups EXCEPT ![gi].middleware = @ \o middleware]
    /\ UNCHANGED <<StrictSlash, routes, mwArr, mwLen, notFound, lastReg, serving,
                   reqs, cTemplate, cResult, ctx, hubVars, storeVars>>

\* RouterGroup.GET, RouterGroup.POST, ...:
\* g.addRoute(g.prefix+pattern, method, handler, middleware...)
GroupVerb(gi, method, pattern, middleware) ==
    /\ ~serving
    /\ gi \in 1..Len(groups)
    /\ Len(routes) < MaxRoutes
    /\ LET g == groups[gi]
       IN  /\ routes' = groupAddRoute(g, GroupPattern(g, pattern), method,
                                      Len(routes) + 1, middleware)
           /\ lastReg' = Reg("RouterGroup", g.prefix, g.middleware, pattern, method,
                             middleware,
                             compileRegex(GroupPattern(g, pattern)).panic)
    /\ UNCHANGED <<StrictSlash, mwArr, mwLen, notFound, groups, serving, reqs,
                   cTemplate, cResult, ctx, hubVars, storeVars>>

\* Router.NotFound: the handler wrapped once, with the global middleware of
\* this moment followed by the middleware given
NotFound(middleware) ==
    /\ ~serving
    /\ LET a == GoAppend(mwArr, mwLen, middleware)
       IN  /\ mwArr' = IF a.grown THEN mwArr ELSE a.arr
           /\ notFound' = [WrapAll(SubSeq(a.arr, 1, a.len), Terminal(0))
                              EXCEPT !.at = [global |-> SubSeq(mwArr, 1, mwLen),
                                             given |-> middleware]]
    /\ UNCHANGED <<StrictSlash, routes, mwLen, groups, lastReg, serving, reqs,
                   cTemplate, cResult, ctx, hubVars, storeVars>>

\* Router.Run: the server starts; registration is not safe from here on
Run ==
    /\ ~serving
    /\ serving' = TRUE
    /\ UNCHANGED <<StrictSlash, routerVars, reqs, cTemplate, cResult, ctx, hubVars, storeVars>>

--------------------------------------------------------------------------
(* The router: Router.ServeHTTP.  One call takes two steps, ServeBegin (the *)
(* context, the loop over the routes, the parameters and the append that    *)
(* combines the middleware) and ServeRun (the loop that wraps the handler   *)
(* and the call of the result), so that the calls of concurrent requests    *)
(* interleave between the append and the reads of its result.               *)

EmptyMap == <<>>

\* m[k] = v of a Go map
MapSet(m, k, v) == [x \in (DOMAIN m) \cup {k} |-> IF x = k THEN v ELSE m[x]]

NoSlice == [shared |-> FALSE, len |-> 0, own |-> <<>>]

IdleReq ==
    [pc |-> "idle", method |-> "", path |-> <<>>, outcome |-> "none", idx |-> 0,
     params |-> EmptyMap, mw |-> NoSlice, chain |-> <<>>, trace |-> <<>>]

\* the effective match path; not defined for the empty path in strict mode
\* (path[len(path)-1] of the code), which EffectivePathPanics tells
EffectivePathPanics(path) == StrictSlash /\ path = <<>>

EffectivePath(path) ==
    IF StrictSlash /\ path[Len(path)] # "/" THEN path \o <<"/">> ELSE path

\* a loop over the routes that keeps the last matching route, not the first
RECURSIVE LookupLast(_, _, _)
LookupLast(k, method, path) ==
    IF k > Len(routes) THEN [kind |-> "none", idx |-> 0]
    ELSE LET rest == LookupLast(k + 1, method, path)
         IN  IF rest.kind # "none" \/ method # routes[k].method THEN rest
             ELSE IF EffectivePathPanics(path) THEN [kind |-> "panic", idx |-> k]
             ELSE IF MatchString(routes[k].pattern, EffectivePath(path))
             THEN [kind |-> "match", idx |-> k]
             ELSE rest

\* a loop over the routes that does not compare the methods
RECURSIVE LookupAnyMethod(_, _, _)
LookupAnyMethod(k, method, path) ==
    IF k > Len(routes) THEN [kind |-> "none", idx |-> 0]
    ELSE IF EffectivePathPanics(path) THEN [kind |-> "panic", idx |-> k]
    ELSE IF MatchString(routes[k].pattern, EffectivePath(path))
    THEN [kind |-> "match", idx |-> k]
    ELSE LookupAnyMethod(k + 1, method, path)

\* the loop over the routes from route k on: the first route of the request's
\* method whose pattern matches ("match"), "none", or "panic" when the
\* effective path is computed for an empty path
RECURSIVE Lookup(_, _, _)
Lookup(k, method, path) ==
    IF k > Len(routes) THEN [kind |-> "none", idx |-> 0]
    ELSE IF method # routes[k].method THEN Lookup(k + 1, method, path)
    ELSE IF EffectivePathPanics(path) THEN [kind |-> "panic", idx |-> k]
    ELSE IF MatchString(routes[k].pattern, EffectivePath(path))
    THEN [kind |-> "match", idx |-> k]
    ELSE Lookup(k + 1, method, path)

\* the loop over SubexpNames; i is the 0-based index of the code.  Reading
\* matches[i] with i = len(matches) is an index out of range
RECURSIVE ParamLoop(_, _, _, _)
ParamLoop(names, matches, i, params) ==
    IF i = Len(names) THEN [params |-> params, panic |-> FALSE]
    ELSE IF i > 0 /\ i <= Len(matches)
    THEN IF i >= Len(matches) THEN [params |-> params, panic |-> TRUE]
         ELSE ParamLoop(names, matches, i + 1,
                        MapSet(params, names[i + 1], matches[i + 1]))
    ELSE ParamLoop(names, matches, i + 1, params)

ExtractParams(pattern, path) ==
    ParamLoop(SubexpNames(pattern), FindStringSubmatch(pattern, path), 0, EmptyMap)

\* the elements of a request's combined middleware slice, read now
SliceElems(sl) ==
    IF sl.shared THEN SubSeq(mwArr, 1, sl.len) ELSE SubSeq(sl.own, 1, sl.len)

ServeBegin(i, method, path) ==
    /\ serving
    /\ reqs[i].pc = "idle"
    /\ LET found == Lookup(1, method, path)
           req == [IdleReq EXCEPT !.method = method, !.path = path]
       IN  IF found.kind = "panic"
           THEN /\ reqs' = [reqs EXCEPT ![i] =
                              [req EXCEPT !.pc = "done", !.outcome = "panicPath"]]
                /\ UNCHANGED mwArr
           ELSE IF found.kind = "none"
           THEN /\ reqs' = [reqs EXCEPT ![i] =
                              IF notFound # NilHandler
                              THEN [req EXCEPT !.pc = "done", !.outcome = "notFound",
                                               !.chain = notFound.wraps,
                                               !.trace = Call(notFound)]
                              ELSE [req EXCEPT !.pc = "done", !.outcome = "404"]]
                /\ UNCHANGED mwArr
           ELSE LET route == routes[found.idx]
                    ex == ExtractParams(route.pattern, EffectivePath(path))
                    a == GoAppend(mwArr, mwLen, route.middleware)
                IN  IF ex.panic
                    THEN /\ reqs' = [reqs EXCEPT ![i] =
                                       [req EXCEPT !.pc = "done",
                                                   !.outcome = "panicParams",
                                                   !.idx = found.idx]]
                         /\ UNCHANGED mwArr
                    ELSE /\ reqs' = [reqs EXCEPT ![i] =
                                       [req EXCEPT !.pc = "fold", !.idx = found.idx,
                                                   !.params = ex.params,
                                                   !.mw = IF a.grown
                                                          THEN [shared |-> FALSE,
                                                                len |-> a.len,
                                                                own |-> a.arr]
                                                          ELSE [shared |-> TRUE,
                                                                len |-> a.len,
                                                                own |-> <<>>]]]
                         /\ mwArr' = IF a.grown THEN mwArr ELSE a.arr
    /\ UNCHANGED <<StrictSlash, routes, mwLen, notFound, groups, lastReg, serving,
                   cTemplate, cResult, ctx, hubVars, storeVars>>

ServeRun(i) ==
    /\ reqs[i].pc = "fold"
    /\ LET req == reqs[i]
           middleware == SliceElems(req.mw)
           handler == WrapAll(middleware, Terminal(routes[req.idx].handler))
       IN  reqs' = [reqs EXCEPT ![i] =
                      [req EXCEPT !.pc = "done", !.outcome = "route",
                                  !.mw = NoSlice,
                                  !.chain = middleware, !.trace = Call(handler)]]
    /\ UNCHANGED <<StrictSlash, routerVars, serving, cTemplate, cResult, ctx, hubVars, storeVars>>

\* ServeHTTP has returned: the goroutine is free for another request
ServeReturn(i) ==
    /\ reqs[i].pc = "done"
    /\ reqs' = [reqs EXCEPT ![i] = IdleReq]
    /\ UNCHANGED <<StrictSlash, routerVars, serving, cTemplate, cResult, ctx, hubVars, storeVars>>

--------------------------------------------------------------------------
(* A stand-alone call of pathPrefixToRegex.                                *)

\* the result of the call and the value of gora.StrictSlash it was made under
\* first is the result of the first call for the template; at is what the
\* program had done when a call was made (routes registered, Run called)
NoCall == [regex |-> <<>>, err |-> <<"not called">>, strict |-> FALSE,
           at |-> [routes |-> 0, serving |-> FALSE]]
NoResult == [regex |-> <<>>, err |-> <<"not called">>, strict |-> FALSE,
             at |-> [routes |-> 0, serving |-> FALSE], again |-> FALSE,
             first |-> NoCall]

\* one call: the expression, the error, and the mode and moment of the call
CompileCall(pathPrefix) ==
    LET r == pathPrefixToRegex(pathPrefix)
    IN  [regex |-> r.regex, err |-> r.err, strict |-> StrictSlash,
         at |-> [routes |-> Len(routes), serving |-> serving]]

CompileTemplate ==
    /\ cResult = NoResult
    /\ LET r == CompileCall(cTemplate)
       IN  cResult' = [regex |-> r.regex, err |-> r.err, strict |-> r.strict,
                       at |-> r.at, again |-> FALSE, first |-> r]
    /\ UNCHANGED <<StrictSlash, routerVars, serving, reqs, cTemplate, ctx, hubVars, storeVars>>

\* a later call for the same template
CompileAgain ==
    /\ cResult # NoResult
    /\ LET r == CompileCall(cTemplate)
       IN  cResult' = [regex |-> r.regex, err |-> r.err, strict |-> r.strict,
                       at |-> r.at, again |-> TRUE, first |-> cResult.first]
    /\ UNCHANGED <<StrictSlash, routerVars, serving, reqs, cTemplate, ctx, hubVars, storeVars>>

--------------------------------------------------------------------------
(* The Context and its response sink.  Writer embeds the http.ResponseWriter *)
(* of the server and overrides WriteHeader only: Write, and the Header map,  *)
(* are those of the embedded writer.  rw is that writer, as net/http         *)
(* implements it: the first WriteHeader or Write fixes the status that is    *)
(* sent, a later WriteHeader is logged as superfluous and changes nothing,   *)
(* a code outside 100..999 panics.                                           *)

StatusOK == 200
StatusInternalServerError == 500

NoPanic == ""

NewResponseWriter ==
    [wroteHeader |-> FALSE, status |-> 0, body |-> <<>>, calls |-> 0]

\* &Context{Response: &Writer{ResponseWriter: w}, ...}; hist is history: the
\* number of Writer.WriteHeader calls, the status of the first of them, the
\* number of calls made on the Context, the middleware and the terminal
\* handler's body the Context was served with, the parts of the chain that
\* ran, in order, each with the aborted flag it found, the value Recovery
\* recovered and the status Logger logged
NewContext ==
    [statusCode |-> 0, headerWritten |-> FALSE, rw |-> NewResponseWriter,
     aborted |-> FALSE, panic |-> NoPanic,
     hist |-> [calls |-> 0, first |-> 0, ops |-> 0, chain |-> <<>>,
               script |-> <<>>, trace |-> <<>>, recovered |-> NoPanic,
               logged |-> 0]]

\* net/http: (*response).WriteHeader
RwWriteHeader(rw, code) ==
    IF rw.wroteHeader THEN [rw |-> [rw EXCEPT !.calls = @ + 1], panic |-> NoPanic]
    ELSE IF code < 100 \/ code > 999
    THEN [rw |-> [rw EXCEPT !.calls = @ + 1], panic |-> "invalid WriteHeader code"]
    ELSE [rw |-> [rw EXCEPT !.calls = @ + 1, !.wroteHeader = TRUE, !.status = code],
          panic |-> NoPanic]

\* net/http: (*response).Write, which sends the header with 200 when none
\* has been sent
RwWrite(rw, data) ==
    LET r == IF rw.wroteHeader THEN rw
             ELSE [rw EXCEPT !.wroteHeader = TRUE, !.status = StatusOK]
    IN  [r EXCEPT !.body = Append(@, data)]

\* Writer.WriteHeader
WriteHeader(c, statusCode) ==
    LET h == [c EXCEPT !.hist.calls = @ + 1,
                       !.hist.first = IF c.hist.calls = 0 THEN statusCode ELSE @]
    IN  IF h.headerWritten /\ statusCode # 0 THEN h
        ELSE LET r == RwWriteHeader(h.rw, statusCode)
             IN  [h EXCEPT !.statusCode = statusCode, !.rw = r.rw,
                           !.panic = r.panic,
                           !.headerWritten = IF r.panic = NoPanic THEN TRUE ELSE @]

\* c.Response.Write: the Write of the embedded writer
Write(c, data) ==
    IF c.panic # NoPanic THEN c ELSE [c EXCEPT !.rw = RwWrite(@, data)]

\* Context.Status
Status(c, statusCode) ==
    IF c.panic # NoPanic THEN c ELSE WriteHeader(c, statusCode)

\* Context.StatusCode
StatusCode(c) == c.statusCode

\* Context.String
String(c, text) == Write(c, text)

\* Context.HTML
HTML(c, html) == Write(Status(c, StatusOK), html)

\* Context.Abort and Context.AbortWithError
Abort(c, status, message) ==
    LET w == Write(Status(c, status), message)
    IN  IF w.panic # NoPanic THEN w ELSE [w EXCEPT !.aborted = TRUE]

\* Context.AbortRequest
AbortRequest(c) == [c EXCEPT !.aborted = TRUE]

\* one call on the Context: op is <<name, arguments...>>
Apply(c, op) ==
    LET r == CASE op[1] = "Status" -> Status(c, op[2])
               [] op[1] = "String" -> String(c, op[2])
               [] op[1] = "HTML" -> HTML(c, op[2])
               [] op[1] = "Abort" -> Abort(c, op[2], op[3])
               [] op[1] = "AbortRequest" -> AbortRequest(c)
    IN  [r EXCEPT !.hist.ops = @ + 1]

\* a handler calls a method of the Context
CtxCall(op) ==
    /\ ctx.panic = NoPanic
    /\ ctx.hist.ops < MaxCalls
    /\ ctx' = Apply(ctx, op)
    /\ UNCHANGED <<StrictSlash, routerVars, serving, reqs, cTemplate, cResult,
                   hubVars, storeVars>>

--------------------------------------------------------------------------
(* A chain at work on a Context.  The body of a terminal handler is a       *)
(* script: calls on the Context and panics, in order.  Recovery and Logger  *)
(* are the middleware of the package; PanicMw stands for a middleware of    *)
(* the application that panics before it calls next, Guard for one that     *)
(* calls ctx.Abort and goes on to call next; any other middleware only      *)
(* calls next.  c.panic is the value of a panic under way.                  *)

\* a panic value that is neither a string nor an error: panic(42)
PanicInt == "int(42)"

GenericBody == "Something went wrong!"

\* panic(v)
Panic(c, v) == IF c.panic # NoPanic THEN c ELSE [c EXCEPT !.panic = v]

\* history: a part of the chain starts to run
Ran(c, ev, mw) ==
    [c EXCEPT !.hist.trace =
                  Append(@, [ev |-> ev, mw |-> mw, aborted |-> c.aborted])]

\* the body of a terminal handler
RECURSIVE RunScript(_, _)
RunScript(c, script) ==
    IF script = <<>> \/ c.panic # NoPanic THEN c
    ELSE LET op == Head(script)
         IN  RunScript(IF op[1] = "panic" THEN Panic(c, op[2]) ELSE Apply(c, op),
                       Tail(script))

\* the deferred function of Recovery
Recover(c) ==
    IF c.panic = NoPanic THEN c
    ELSE LET val == c.panic
             r == [c EXCEPT !.panic = NoPanic, !.hist.recovered = val]
         IN  IF val # PanicInt
             THEN HTML(Status(r, StatusInternalServerError), val)
             ELSE HTML(Status(r, StatusInternalServerError), GenericBody)

\* handler(ctx), for the handler made by wrapping the terminal handler in
\* wraps[1], then wraps[2], ...
RECURSIVE Exec(_, _, _)
Exec(wraps, script, c) ==
    IF wraps = <<>> THEN RunScript(Ran(c, "handler", "-"), script)
    ELSE LET n == Len(wraps)
             mw == wraps[n]
             next == SubSeq(wraps, 1, n - 1)
             pre == Ran(c, "pre", mw)
         IN  CASE mw = "Recovery" -> Recover(Exec(next, script, pre))
               [] mw = "Logger" ->
                    LET r == Exec(next, script, pre)
                    IN  IF r.panic # NoPanic THEN r
                        ELSE Ran([r EXCEPT !.hist.logged = StatusCode(r)],
                                 "post", mw)
               [] mw = "PanicMw" -> Panic(pre, "boom1")
               [] mw = "Guard" ->
                    Exec(next, script, Abort(pre, 401, "unauthorized"))
               [] OTHER -> Exec(next, script, pre)

\* Default(): New() and r.Use(Recovery, Logger)
Default ==
    /\ mwLen = 0
    /\ routes = <<>>
    /\ Use(<<"Recovery", "Logger">>)

\* ServeHTTP from the fold on: the handler is wrapped and called on the
\* Context made for the request; script is the body of the route's handler
ServeChain(i, script) ==
    /\ reqs[i].pc = "fold"
    /\ LET req == reqs[i]
           middleware == SliceElems(req.mw)
           handler == WrapAll(middleware, Terminal(routes[req.idx].handler))
           c == [NewContext EXCEPT !.hist.chain = middleware,
                                   !.hist.script = script]
       IN  /\ reqs' = [reqs EXCEPT ![i] =
                         [req EXCEPT !.pc = "done", !.outcome = "route",
                                     !.mw = NoSlice,
                                     !.chain = middleware,
                                     !.trace = Call(handler)]]
           /\ ctx' = Exec(handler.wraps, script, c)
    /\ UNCHANGED <<StrictSlash, routerVars, serving, cTemplate, cResult, hubVars, storeVars>>

--------------------------------------------------------------------------
(* The WebSocket hub.  The channels register, unregister and broadcast are  *)
(* unbuffered: a send on one of them completes when the loop of Run takes   *)
(* it, so the send and the case of the select that handles it are one step. *)
(* send[c] is the channel Client.send of client c: its buffered messages,   *)
(* the number of times it was closed, and whether ServeHTTP has made it.    *)
(* SendCap stands for the capacity 256 of the source.                       *)

ClientIds == 1..MaxClients

Messages == {"m1"}

NoChan == [buf |-> <<>>, closes |-> 0, made |-> FALSE]

AppIdle == [pc |-> "idle", msg |-> "", seen |-> {}, cur |-> 0]

NoLens == [c \in ClientIds |-> 0]

\* the length of the queue of every client of the set
Lens == [c \in ClientIds |-> IF c \in clients THEN Len(send[c].buf) ELSE 0]

\* history: the goroutines that changed the client set or closed a queue,
\* whether another goroutine was inside the set while the loop ran, the
\* number of calls of quit, the last event handled, the client set and the
\* queue lengths before it, and whether it changed the set or a queue
NoHubLog ==
    [writers |-> {}, shared |-> FALSE, quits |-> 0, op |-> "none", arg |-> 0,
     clients |-> {}, lens |-> NoLens, changed |-> FALSE]

\* NewHandler
InitHub ==
    /\ clients = {}
    /\ send = [c \in ClientIds |-> NoChan]
    /\ done = 0
    /\ once = FALSE
    /\ hubPc = "new"
    /\ pumps = [c \in ClientIds |-> {}]
    /\ app = AppIdle
    /\ hubLog = NoHubLog

\* the state of the hub a step of a goroutine works on and gives back
HubState == [clients |-> clients, send |-> send, panic |-> NoPanic]

\* close(client.send); delete(h.clients, client)
removeClient(h, client) ==
    IF h.panic # NoPanic THEN h
    ELSE IF h.send[client].closes > 0
    THEN [h EXCEPT !.send[client].closes = @ + 1,
                   !.panic = "close of closed channel"]
    ELSE [h EXCEPT !.send[client].closes = @ + 1,
                   !.clients = @ \ {client}]

\* a broadcast that drops the message for a full queue and keeps the client
SendOrDrop(h, client, message) ==
    IF h.panic # NoPanic THEN h
    ELSE IF h.send[client].closes > 0
    THEN [h EXCEPT !.panic = "send on closed channel"]
    ELSE IF Len(h.send[client].buf) < SendCap
    THEN [h EXCEPT !.send[client].buf = Append(@, message)]
    ELSE h

\* select { case client.send <- message: default: h.removeClient(client) }
SendOrRemove(h, client, message) ==
    IF h.panic # NoPanic THEN h
    ELSE IF h.send[client].closes > 0
    THEN [h EXCEPT !.panic = "send on closed channel"]
    ELSE IF Len(h.send[client].buf) < SendCap
    THEN [h EXCEPT !.send[client].buf = Append(@, message)]
    ELSE removeClient(h, client)

\* for client := range h.clients { ... }: the clients left to visit are todo
RECURSIVE BroadCastOver(_, _, _)
BroadCastOver(h, todo, message) ==
    IF todo = {} THEN h
    ELSE LET client == CHOOSE c \in todo : TRUE
         IN  BroadCastOver(SendOrRemove(h, client, message), todo \ {client},
                           message)

\* WebsocketHandler.BroadCastMessage, run without interruption
BroadCastMessage(h, message) == BroadCastOver(h, h.clients, message)

\* an unregister case that does not look whether the client is in the set
UnregisterUnchecked(h, client) == removeClient(h, client)

\* case client := <-h.unregister
Unregister(h, client) ==
    IF client \in h.clients THEN removeClient(h, client) ELSE h

\* for c := range h.clients { h.removeClient(c) }
RECURSIVE RemoveAll(_, _)
RemoveAll(h, todo) ==
    IF todo = {} THEN h
    ELSE LET client == CHOOSE c \in todo : TRUE
         IN  RemoveAll(removeClient(h, client), todo \ {client})

\* a shutdown case that returns without removing the clients
ShutdownKeepsClients(h) == h

\* case <-h.done
Shutdown(h) == RemoveAll(h, h.clients)

\* the loop has handled an event: the state it leaves, and the history
LoopDid(op, arg, h, pc) ==
    /\ clients' = h.clients
    /\ send' = h.send
    /\ hubPc' = IF h.panic # NoPanic THEN "panicked" ELSE pc
    /\ hubLog' = [hubLog EXCEPT
                    !.op = op, !.arg = arg, !.clients = clients, !.lens = Lens,
                    !.changed = (h.clients # clients \/ h.send # send),
                    !.writers = IF h.clients # clients \/ h.send # send
                                THEN @ \cup {"Run"} ELSE @,
                    !.shared = @ \/ app.pc # "idle"]

NotHub ==
    <<StrictSlash, routerVars, serving, reqs, cTemplate, cResult, ctx, storeVars>>

\* go hub.Run()
HubRun ==
    /\ hubPc = "new"
    /\ hubPc' = "running"
    /\ UNCHANGED <<clients, send, done, once, pumps, app, hubLog, NotHub>>

\* WebsocketHandler.ServeHTTP for a new connection: the client is made, sent
\* on register and taken by the loop; then its two pumps start
HubRegister(client) ==
    /\ hubPc = "running"
    /\ ~send[client].made
    /\ LoopDid("register", client,
               [HubState EXCEPT !.clients = @ \cup {client},
                                !.send[client].made = TRUE],
               "running")
    /\ pumps' = [pumps EXCEPT ![client] = {"read", "write"}]
    /\ UNCHANGED <<done, once, app, NotHub>>

\* a pump of the client ends and sends the client on unregister
HubUnregister(client, pump) ==
    /\ hubPc = "running"
    /\ pump \in pumps[client]
    /\ LoopDid("unregister", client, Unregister(HubState, client), "running")
    /\ pumps' = [pumps EXCEPT ![client] = @ \ {pump}]
    /\ UNCHANGED <<done, once, app, NotHub>>

\* the read pump of a client sends a message on broadcast
HubBroadcast(client, message) ==
    /\ hubPc = "running"
    /\ "read" \in pumps[client]
    /\ LoopDid("broadcast", message, BroadCastMessage(HubState, message),
               "running")
    /\ UNCHANGED <<done, once, pumps, app, NotHub>>

\* the write pump of a client takes a message from the client's queue
PumpDrain(client) ==
    /\ "write" \in pumps[client]
    /\ send[client].buf # <<>>
    /\ send' = [send EXCEPT ![client].buf = Tail(@)]
    /\ hubLog' = [hubLog EXCEPT !.op = "drain", !.arg = 0, !.clients = {},
                                 !.lens = NoLens, !.changed = FALSE]
    /\ UNCHANGED <<clients, done, once, hubPc, pumps, app, NotHub>>

(* The sends on the hub's channels, one step for the sender that reaches the *)
(* send and one for the loop that receives: the channels have no buffer, so  *)
(* a sender stays at its send until the loop takes it.  In pumps[client]:    *)
(* "serve" is ServeHTTP at register <- client, "readBye" and "writeBye" a    *)
(* pump at unregister <- client, "readSay" the read pump at                  *)
(* broadcast <- message.                                                     *)

\* the name of a pump that waits at unregister <- client
Bye(pump) == IF pump = "read" THEN "readBye" ELSE "writeBye"

\* ServeHTTP has upgraded the connection, made the client and reached
\* client.hub.register <- client
HubConnect(client) ==
    /\ ~send[client].made
    /\ pumps[client] = {}
    /\ pumps' = [pumps EXCEPT ![client] = {"serve"}]
    /\ UNCHANGED <<clients, send, done, once, hubPc, app, hubLog, NotHub>>

\* case client := <-h.register; ServeHTTP goes on and starts the two pumps
HubAccept(client) ==
    /\ hubPc = "running"
    /\ "serve" \in pumps[client]
    /\ LoopDid("register", client,
               [HubState EXCEPT !.clients = @ \cup {client},
                                !.send[client].made = TRUE],
               "running")
    /\ pumps' = [pumps EXCEPT ![client] = {"read", "write"}]
    /\ UNCHANGED <<done, once, app, NotHub>>

\* a pump ends, on a socket error or on the closure of the queue, and reaches
\* unregister <- client
PumpExit(client, pump) ==
    /\ pump \in pumps[client] \cap {"read", "write"}
    /\ pumps' = [pumps EXCEPT ![client] = (@ \ {pump}) \cup {Bye(pump)}]
    /\ UNCHANGED <<clients, send, done, once, hubPc, app, hubLog, NotHub>>

\* case client := <-h.unregister
HubTakeUnregister(client, pump) ==
    /\ hubPc = "running"
    /\ Bye(pump) \in pumps[client]
    /\ LoopDid("unregister", client, Unregister(HubState, client), "running")
    /\ pumps' = [pumps EXCEPT ![client] = @ \ {Bye(pump)}]
    /\ UNCHANGED <<done, once, app, NotHub>>

\* the read pump has read a message and reaches broadcast <- message
PumpSay(client) ==
    /\ "read" \in pumps[client]
    /\ pumps' = [pumps EXCEPT ![client] = (@ \ {"read"}) \cup {"readSay"}]
    /\ UNCHANGED <<clients, send, done, once, hubPc, app, hubLog, NotHub>>

\* case message := <-h.broadcast; the read pump goes on reading
HubTakeBroadcast(client, message) ==
    /\ hubPc = "running"
    /\ "readSay" \in pumps[client]
    /\ LoopDid("broadcast", message, BroadCastMessage(HubState, message),
               "running")
    /\ pumps' = [pumps EXCEPT ![client] = (@ \ {"readSay"}) \cup {"read"}]
    /\ UNCHANGED <<done, once, app, NotHub>>

\* a quit function that closes done on every call
QuitNoOnce(d) == d + 1

\* once.Do(func() { close(h.done) }): the closes of done after the call
QuitOnce(d) == IF once THEN d ELSE d + 1

\* the quit function returned by NewHandler
Quit ==
    /\ hubLog.quits < MaxQuits
    /\ done' = QuitOnce(done)
    /\ once' = TRUE
    /\ hubLog' = [hubLog EXCEPT !.quits = @ + 1]
    /\ UNCHANGED <<clients, send, hubPc, pumps, app, NotHub>>

\* case <-h.done: the loop removes every client and Run returns
HubShutdown ==
    /\ hubPc = "running"
    /\ done > 0
    /\ LoopDid("shutdown", 0, Shutdown(HubState), "stopped")
    /\ UNCHANGED <<done, once, pumps, app, NotHub>>

\* an application goroutine calls the exported BroadCastMessage: it starts
\* to range over h.clients
AppBroadcastStart(message) ==
    /\ app.pc = "idle"
    /\ app' = [AppIdle EXCEPT !.pc = "range", !.msg = message]
    /\ hubLog' = [hubLog EXCEPT !.shared = @ \/ hubPc = "running"]
    /\ UNCHANGED <<clients, send, done, once, hubPc, pumps, NotHub>>

\* the range gives the goroutine a client it has not visited: the select
\* sends the message, or finds the queue full and closes it
AppVisit(client) ==
    /\ app.pc = "range"
    /\ client \in clients \ app.seen
    /\ IF send[client].closes > 0
       THEN /\ app' = [app EXCEPT !.pc = "panicked"]
            /\ UNCHANGED <<send, hubLog>>
       ELSE IF Len(send[client].buf) < SendCap
       THEN /\ send' = [send EXCEPT ![client].buf = Append(@, app.msg)]
            /\ app' = [app EXCEPT !.seen = @ \cup {client}]
            /\ UNCHANGED hubLog
       ELSE /\ send' = [send EXCEPT ![client].closes = @ + 1]
            /\ app' = [app EXCEPT !.pc = "delete", !.cur = client]
            /\ hubLog' = [hubLog EXCEPT !.writers = @ \cup {"App"}]
    /\ UNCHANGED <<clients, done, once, hubPc, pumps, NotHub>>

\* delete(h.clients, client), the second statement of removeClient
AppDelete ==
    /\ app.pc = "delete"
    /\ clients' = clients \ {app.cur}
    /\ app' = [app EXCEPT !.pc = "range", !.seen = @ \cup {app.cur}, !.cur = 0]
    /\ hubLog' = [hubLog EXCEPT !.writers = @ \cup {"App"}]
    /\ UNCHANGED <<send, done, once, hubPc, pumps, NotHub>>

\* the range is over: BroadCastMessage returns
AppBroadcastEnd ==
    /\ app.pc = "range"
    /\ clients \ app.seen = {}
    /\ app' = AppIdle
    /\ UNCHANGED <<clients, send, done, once, hubPc, pumps, hubLog, NotHub>>

--------------------------------------------------------------------------
(* The key/value store of a Context: c.data guarded by the sync.RWMutex     *)
(* c.mu.  Set takes the lock for writing, Get and MustGet for reading; all  *)
(* three release it in a deferred call.  mu.w is the goroutine that holds   *)
(* the lock for writing (0: nobody), mu.r the goroutines that hold it for   *)
(* reading, mu.pend the goroutines blocked in Lock: sync.RWMutex lets no    *)
(* new reader in while a writer waits.  mu.recovered is history: a panic of  *)
(* MustGet has left its call.                                               *)

Goroutines == 1..MaxGoroutines

Keys == {"user", "role"}

Values == {"v1", "v2"}

Absent == "absent"

NoExpect == "unknown"

NoKv == [value |-> Absent, ok |-> FALSE]

\* a goroutine of the request: where it is in a call (idle: in none), the
\* call and its result; history: what a Get that started now must return
\* (NoExpect: nothing is promised)
IdleGor ==
    [pc |-> "idle", op |-> "", key |-> "", val |-> "", res |-> NoKv,
     panicking |-> FALSE, expect |-> NoExpect]

\* history of the IntParam calls: the inputs and the result of the last one
NoIntCall ==
    [called |-> FALSE, params |-> <<>>, key |-> <<>>,
     n |-> [neg |-> FALSE, mag |-> <<"0">>], err |-> <<>>]

InitStore ==
    /\ mu = [w |-> 0, r |-> {}, pend |-> {}, recovered |-> FALSE]
    /\ cdata = [k \in Keys |-> Absent]
    /\ gor = [g \in Goroutines |-> IdleGor]
    /\ intCall = NoIntCall

NotStore ==
    <<StrictSlash, routerVars, serving, reqs, cTemplate, cResult, ctx, hubVars>>

\* the goroutines inside a Set of key k, from the call to its return
Setting(k) == {g \in Goroutines : gor[g].pc # "idle" /\ gor[g].op = "Set"
                                    /\ gor[g].key = k}

\* a read lock that is given whoever holds the lock
CanRLockAlways(m) == TRUE

\* mu.RLock() can return
CanRLock(m) == m.w = 0 /\ m.pend = {}

\* mu.Lock() can return
CanLock(m) == m.w = 0 /\ m.r = {}

\* a deferred call that runs on a normal return only
RunsOnReturnOnly(panicking) == ~panicking

\* defer c.mu.Unlock() / defer c.mu.RUnlock(): a deferred call runs when the
\* function returns and when it panics
RunsDeferred(panicking) == TRUE

\* a goroutine calls c.Set(key, value), c.Get(key) or c.MustGet(key)
KvCall(g, op, key, value) ==
    /\ gor[g].pc = "idle"
    /\ gor' = [h \in Goroutines |->
                 IF h = g
                 THEN [IdleGor EXCEPT
                         !.pc = "lock", !.op = op, !.key = key,
                         !.val = IF op = "Set" THEN value ELSE "",
                         !.expect = IF op = "Set" \/ Setting(key) # {}
                                    THEN NoExpect ELSE cdata[key]]
                 ELSE IF op = "Set" /\ gor[h].pc # "idle" /\ gor[h].key = key
                 THEN [gor[h] EXCEPT !.expect = NoExpect]
                 ELSE gor[h]]
    /\ mu' = IF op = "Set" THEN [mu EXCEPT !.pend = @ \cup {g}] ELSE mu
    /\ UNCHANGED <<cdata, intCall, NotStore>>

\* c.mu.Lock() or c.mu.RLock() returns
KvLock(g) ==
    /\ gor[g].pc = "lock"
    /\ IF gor[g].op = "Set"
       THEN /\ CanLock(mu)
            /\ mu' = [mu EXCEPT !.w = g, !.pend = @ \ {g}]
       ELSE /\ CanRLock(mu)
            /\ mu' = [mu EXCEPT !.r = @ \cup {g}]
    /\ gor' = [gor EXCEPT ![g].pc = "in"]
    /\ UNCHANGED <<cdata, intCall, NotStore>>

\* the access to c.data; MustGet panics when the key is absent
KvAccess(g) ==
    /\ gor[g].pc = "in"
    /\ LET k == gor[g].key
       IN  IF gor[g].op = "Set"
           THEN /\ cdata' = [cdata EXCEPT ![k] = gor[g].val]
                /\ gor' = [gor EXCEPT ![g].pc = "defer"]
           ELSE /\ UNCHANGED cdata
                /\ gor' = [gor EXCEPT
                             ![g].pc = "defer",
                             ![g].res = IF cdata[k] = Absent THEN NoKv
                                        ELSE [value |-> cdata[k], ok |-> TRUE],
                             ![g].panicking =
                                 gor[g].op = "MustGet" /\ cdata[k] = Absent]
    /\ UNCHANGED <<mu, intCall, NotStore>>

\* the call ends: the deferred unlock runs, and the call returns or its
\* panic goes up to a recover (that of Recovery) and the goroutine goes on
KvReturn(g) ==
    /\ gor[g].pc = "defer"
    /\ mu' = IF RunsDeferred(gor[g].panicking)
             THEN [mu EXCEPT !.w = IF @ = g THEN 0 ELSE @, !.r = @ \ {g},
                             !.recovered = @ \/ gor[g].panicking]
             ELSE [mu EXCEPT !.recovered = @ \/ gor[g].panicking]
    /\ gor' = [gor EXCEPT ![g] = IdleGor]
    /\ UNCHANGED <<cdata, intCall, NotStore>>

--------------------------------------------------------------------------
(* Context.IntParam and strconv.Atoi.  An int of the program has 64 bits;   *)
(* its values are kept in decimal: a sign and the digits of the magnitude   *)
(* with no leading zero, so that no value is cut to the model's integers.   *)

ErrInvalidParam == <<"invalid url parameter">>

\* math.MaxInt64 and the magnitude of math.MinInt64
MaxIntMag ==
    <<"9", "2", "2", "3", "3", "7", "2", "0", "3", "6", "8", "5", "4", "7",
      "7", "5", "8", "0", "7">>
MinIntMag ==
    <<"9", "2", "2", "3", "3", "7", "2", "0", "3", "6", "8", "5", "4", "7",
      "7", "5", "8", "0", "8">>

DigitValue(d) == CHOOSE v \in 0..9 : <<"0", "1", "2", "3", "4", "5", "6", "7", "8", "9">>[v + 1] = d

IntValue(neg, mag) == [neg |-> neg /\ mag # <<"0">>, mag |-> mag]

ZeroValue == IntValue(FALSE, <<"0">>)

\* the digits without leading zeros
RECURSIVE StripZeros(_)
StripZeros(d) ==
    IF Len(d) > 1 /\ Head(d) = "0" THEN StripZeros(Tail(d)) ELSE d

\* a <= b for magnitudes without leading zeros
RECURSIVE MagLeq(_, _)
MagLeq(a, b) ==
    IF Len(a) # Len(b) THEN Len(a) < Len(b)
    ELSE IF a = <<>> THEN TRUE
    ELSE IF Head(a) # Head(b) THEN DigitValue(Head(a)) < DigitValue(Head(b))
    ELSE MagLeq(Tail(a), Tail(b))

\* strconv.Atoi: an optional sign and decimal digits, within 64 bits
Atoi(s) ==
    LET signed == s # <<>> /\ Head(s) \in {"+", "-"}
        neg == s # <<>> /\ Head(s) = "-"
        body == IF signed THEN Tail(s) ELSE s
    IN  IF body = <<>> \/ ~AllIn(body, Digits)
        THEN [n |-> ZeroValue, err |-> <<"invalid syntax">>]
        ELSE LET mag == StripZeros(body)
             IN  IF MagLeq(mag, IF neg THEN MinIntMag ELSE MaxIntMag)
                 THEN [n |-> IntValue(neg, mag), err |-> NoErr]
                 ELSE [n |-> IntValue(neg, IF neg THEN MinIntMag ELSE MaxIntMag),
                       err |-> <<"value out of range">>]

\* an IntParam that gives the value of a failed conversion with no error
IntParamNoError(params, key) ==
    IF key \in DOMAIN params
    THEN [n |-> Atoi(params[key]).n, err |-> NoErr]
    ELSE [n |-> ZeroValue, err |-> NoErr]

\* Context.IntParam
IntParam(params, key) ==
    IF key \in DOMAIN params
    THEN LET r == Atoi(params[key])
         IN  IF r.err # NoErr THEN [n |-> ZeroValue, err |-> ErrInvalidParam]
             ELSE [n |-> r.n, err |-> NoErr]
    ELSE [n |-> ZeroValue, err |-> ErrInvalidParam]

\* a handler calls c.IntParam(key) on a Context with the parameters params
IntParamCall(params, key) ==
    /\ LET r == IntParam(params, key)
       IN  intCall' = [called |-> TRUE, params |-> params, key |-> key,
                       n |-> r.n, err |-> r.err]
    /\ UNCHANGED <<mu, cdata, gor, NotStore>>

\* ServeHTTP from the fold on, for a route whose handler calls
\* c.IntParam(key) on the Context of the request
ServeIntParam(i, key) ==
    /\ reqs[i].pc = "fold"
    /\ LET req == reqs[i]
           middleware == SliceElems(req.mw)
           handler == WrapAll(middleware, Terminal(routes[req.idx].handler))
           r == IntParam(req.params, key)
       IN  /\ reqs' = [reqs EXCEPT ![i] =
                         [req EXCEPT !.pc = "done", !.outcome = "route",
                                     !.mw = NoSlice,
                                     !.chain = middleware,
                                     !.trace = Call(handler)]]
           /\ intCall' = [called |-> TRUE, params |-> req.params, key |-> key,
                          n |-> r.n, err |-> r.err]
    /\ UNCHANGED <<StrictSlash, routerVars, serving, cTemplate, cResult, ctx,
                   hubVars, mu, cdata, gor>>

--------------------------------------------------------------------------
(* Initial state: a Router made by New(), nothing registered.              *)

InitRouter ==
    /\ StrictSlash = FALSE
    /\ routes = <<>>
    /\ mwArr = <<>>
    /\ mwLen = 0
    /\ notFound = NilHandler
    /\ groups = <<>>
    /\ serving = FALSE
    /\ reqs = [i \in 1..MaxInFlight |-> IdleReq]
    /\ lastReg = NoReg

Init ==
    /\ InitRouter
    /\ cTemplate = <<>>
    /\ cResult = NoResult
    /\ ctx = NewContext
    /\ InitHub
    /\ InitStore

--------------------------------------------------------------------------
(* The inputs of the model: templates, group prefixes, request paths,      *)
(* methods and middleware.                                                 *)

TplRoot == <<"/">>
TplUsersInt == <<"/", "u", "s", "e", "r", "s", "/", "{", "i", "d", ":", "i", "n", "t", "}">>
TplUsersAny == <<"/", "u", "s", "e", "r", "s", "/", "{", "i", "d", "}">>
TplUsersUuid == <<"/", "u", "s", "e", "r", "s", "/", "{", "i", "d", ":", "u", "u", "i", "d", "}">>
PatRoot == <<"/">>
PatPing == <<"/", "p", "i", "n", "g">>
PrefixTest == <<"/", "t", "e", "s", "t">>
PrefixApi == <<"/", "a", "p", "i">>
PrefixSlash == <<"/">>
PathRoot == <<"/">>
PathUsers == <<"/", "u", "s", "e", "r", "s", "/">>
PathUsers42 == <<"/", "u", "s", "e", "r", "s", "/", "4", "2">>
PathUsersAbc == <<"/", "u", "s", "e", "r", "s", "/", "a", "b", "c">>
PathUsers42Slash == <<"/", "u", "s", "e", "r", "s", "/", "4", "2", "/">>
PathPing == <<"/", "p", "i", "n", "g">>
PathTest == <<"/", "t", "e", "s", "t", "/">>
PathTestPing == <<"/", "t", "e", "s", "t", "/", "p", "i", "n", "g">>
PathApiPing == <<"/", "a", "p", "i", "/", "p", "i", "n", "g">>
NameId == <<"i", "d">>
PathEmpty == <<>>
SegUsers == <<"u", "s", "e", "r", "s">>
SegPosts == <<"p", "o", "s", "t", "s">>
SegPrices == <<"p", "r", "i", "c", "e", "s">>
SegArticles == <<"a", "r", "t", "i", "c", "l", "e", "s">>
SegIdInt == <<"{", "i", "d", ":", "i", "n", "t", "}">>
SegSlugStr == <<"{", "s", "l", "u", "g", ":", "s", "t", "r", "}">>
SegAboveFloat == <<"{", "a", "b", "o", "v", "e", ":", "f", "l", "o", "a", "t", "}">>
SegPublishedBool == <<"{", "p", "u", "b", "l", "i", "s", "h", "e", "d", ":", "b", "o", "o", "l", "}">>
SegFromDate == <<"{", "f", "r", "o", "m", ":", "d", "a", "t", "e", "}">>
SegToDate == <<"{", "t", "o", ":", "d", "a", "t", "e", "}">>
SegPublishedAt == <<"{", "p", "u", "b", "l", "i", "s", "h", "e", "d", "_", "a", "t", ":", "d", "a", "t", "e", "t", "i", "m", "e", "}">>
SegId == <<"{", "i", "d", "}">>

--------------------------------------------------------------------------
(* Dispatch: routes registered on the Router, the strict-slash option, the  *)
(* not-found handler, requests served one at a time.                        *)

DispatchMethods == {"GET", "POST"}
DispatchTemplates == {TplRoot, TplUsersInt, TplUsersAny, TplUsersUuid}
DispatchPaths ==
    {PathEmpty, PathRoot, PathUsers, PathUsers42, PathUsersAbc, PathUsers42Slash}

Next ==
    \/ \E b \in BOOLEAN : SetStrictSlash(b)
    \/ \E m \in DispatchMethods, t \in DispatchTemplates : RouterVerb(m, t, <<>>)
    \/ NotFound(<<>>)
    \/ Run
    \/ \E m \in DispatchMethods, p \in DispatchPaths : ServeBegin(1, m, p)
    \/ ServeRun(1)
    \/ ServeReturn(1)

Spec == Init /\ [][Next]_vars

--------------------------------------------------------------------------
(* Properties of dispatch.                                                 *)

Slots == 1..MaxInFlight

Done(i) == reqs[i].pc = "done"

SetMin(S) == CHOOSE n \in S : \A m \in S : n <= m

\* route k has the request's method and a pattern that matches the request's
\* path.  Every pattern the router compiles begins with ^/, so no pattern
\* matches the empty path.
Candidate(k, req) ==
    /\ routes[k].method = req.method
    /\ req.path # <<>>
    /\ MatchString(routes[k].pattern, EffectivePath(req.path))

Candidates(req) == {k \in 1..Len(routes) : Candidate(k, req)}

\* the terminal handlers a call has run
HandlersRun(trace) ==
    {trace[j].h : j \in {x \in 1..Len(trace) : trace[x].ev = "handler"}}

PatUsersAnyDefault == PathPrefixToRegexWith(TplUsersAny, FALSE).regex
PatUsersIntDefault == PathPrefixToRegexWith(TplUsersInt, FALSE).regex
PatUsersIntStrict == PathPrefixToRegexWith(TplUsersInt, TRUE).regex

\* C1: when several routes have the request's method and a pattern matching
\* the request path, ServeHTTP invokes the handler of the earliest registered
\* of them and the handler of no other route.
C1_FirstMatchWins ==
    \A i \in Slots :
        Done(i) /\ Candidates(reqs[i]) # {} =>
            LET first == SetMin(Candidates(reqs[i]))
            IN  /\ reqs[i].outcome = "route"
                /\ reqs[i].idx = first
                /\ HandlersRun(reqs[i].trace) = {routes[first].handler}

\* C1, the case: /users/{id} registered before the narrower /users/{id:int},
\* both match /users/42, the earlier one has been invoked
C1_Witness ==
    \E i \in Slots :
        /\ Done(i)
        /\ Len(routes) = 2
        /\ routes[1].pattern = PatUsersAnyDefault
        /\ routes[2].pattern = PatUsersIntDefault
        /\ reqs[i].path = PathUsers42
        /\ Candidates(reqs[i]) = {1, 2}
        /\ HandlersRun(reqs[i].trace) = {routes[1].handler}

\* C5: ServeHTTP never invokes a route of another method than the request's;
\* a request whose path is matched only by routes of other methods ends with
\* the not-found handler or the default 404.
C5_MethodFilter ==
    \A i \in Slots :
        Done(i) =>
            /\ reqs[i].outcome = "route" =>
                   routes[reqs[i].idx].method = reqs[i].method
            /\ (/\ Candidates(reqs[i]) = {}
                /\ \E k \in 1..Len(routes) :
                       Candidate(k, [reqs[i] EXCEPT !.method = routes[k].method]))
               => reqs[i].outcome \in {"notFound", "404"}

\* C5, the case: POST /users/42 when only GET /users/{id:int} is registered
\* has ended with the default 404
C5_Witness ==
    \E i \in Slots :
        /\ Done(i)
        /\ reqs[i].method = "POST"
        /\ reqs[i].path = PathUsers42
        /\ Len(routes) = 1
        /\ routes[1].method = "GET"
        /\ routes[1].pattern = PatUsersIntDefault
        /\ reqs[i].outcome = "404"

\* C6: every request ends in exactly one of three ways: the first matching
\* route is invoked; no route matches and the registered not-found handler is
\* invoked; no route matches, none is registered and a 404 is emitted.  The
\* router never panics for a request that matches no route.
C6_ThreeOutcomes ==
    \A i \in Slots :
        Done(i) =>
            IF Candidates(reqs[i]) # {}
            THEN /\ reqs[i].outcome = "route"
                 /\ reqs[i].idx = SetMin(Candidates(reqs[i]))
            ELSE IF notFound # NilHandler
            THEN /\ reqs[i].outcome = "notFound"
                 /\ reqs[i].trace = Call(notFound)
            ELSE reqs[i].outcome = "404"

\* C6, the failing case: in strict mode a request with an empty path, with a
\* route of its method registered, has ended in an index-out-of-range panic
C6_PanicOnEmptyPath ==
    \E i \in Slots :
        /\ Done(i)
        /\ StrictSlash
        /\ reqs[i].path = PathEmpty
        /\ Candidates(reqs[i]) = {}
        /\ reqs[i].outcome = "panicPath"

HasPrefix(s, p) == Len(s) >= Len(p) /\ SubSeq(s, 1, Len(p)) = p

\* v of a path /users/v
AfterUsers(path) == SubSeq(path, Len(PathUsers) + 1, Len(path))

IsDigits(v) == v # <<>> /\ AllIn(v, Digits)

OneParam(name, v) == [x \in {name} |-> v]

\* the parameter map has one entry per named group of the matched route's
\* pattern, holding the text the group captured
ParamsAreCaptures(req) ==
    LET pattern == routes[req.idx].pattern
        names == SubexpNames(pattern)
        matches == FindStringSubmatch(pattern, EffectivePath(req.path))
    IN  /\ Len(matches) = Len(names)
        /\ DOMAIN req.params = {names[j] : j \in 2..Len(names)}
        /\ \A j \in 2..Len(names) : req.params[names[j]] = matches[j]

\* the round trip of /users/{id:int} for the routes whose pattern is in
\* patterns: a request /users/v of the route's method matches the route
\* exactly when v is a non-empty string of digits, and then id = v
UsersIntRoundTrip(req, patterns) ==
    \A k \in 1..Len(routes) :
        (/\ routes[k].pattern \in patterns
         /\ routes[k].method = req.method
         /\ HasPrefix(req.path, PathUsers))
        => LET v == AfterUsers(req.path)
           IN  /\ Candidate(k, req) <=> IsDigits(v)
               /\ (req.outcome = "route" /\ req.idx = k)
                      => req.params = OneParam(NameId, v)

\* C7 as stated: with GET /users/{id:int} registered, GET /users/v matches
\* exactly when v is a non-empty string of digits, and the parameter map then
\* holds id = v; the map of a matched request has one entry per placeholder
\* with the captured text; extraction reads no index outside the match result.
C7_RoundTrip ==
    \A i \in Slots :
        Done(i) =>
            /\ reqs[i].outcome # "panicParams"
            /\ reqs[i].outcome = "route" => ParamsAreCaptures(reqs[i])
            /\ UsersIntRoundTrip(reqs[i], {PatUsersIntDefault, PatUsersIntStrict})

\* C7, amended: the round trip of /users/{id:int} holds with StrictSlash false
\* when the route is registered and when the request is served; the statements
\* about the parameter map and the index hold in every mode.
C7_RoundTripDefault ==
    \A i \in Slots :
        Done(i) =>
            /\ reqs[i].outcome # "panicParams"
            /\ reqs[i].outcome = "route" => ParamsAreCaptures(reqs[i])
            /\ ~StrictSlash => UsersIntRoundTrip(reqs[i], {PatUsersIntDefault})

\* C7, the case: /users/42 has matched /users/{id:int} with id = 42
C7_Witness ==
    \E i \in Slots :
        /\ Done(i)
        /\ ~StrictSlash
        /\ reqs[i].path = PathUsers42
        /\ reqs[i].outcome = "route"
        /\ routes[reqs[i].idx].pattern = PatUsersIntDefault
        /\ reqs[i].params = OneParam(NameId, <<"4", "2">>)

KnownTypes == {TyInt, TyStr, TyFloat, TyBool, TyDate, TyDatetime}

\* the types of the placeholders {name:type} of a template that are not
\* among the supported ones
UnknownTypes(template) ==
    LET segments == Split(template, "/")
        typed == {j \in 1..Len(segments) :
                     /\ Contains(segments[j], "{")
                     /\ Contains(segments[j], "}")
                     /\ Contains(segments[j], ":")}
        TypeOf(j) == Split(Slice(segments[j], 1, Len(segments[j]) - 1), ":")[2]
    IN  {TypeOf(j) : j \in typed} \ KnownTypes

\* C8: a registration whose template has a placeholder of an unsupported type
\* panics with "invalid parameter type" and leaves the route table as it was
\* before the call.
C8_UnknownTypeRejected ==
    (lastReg.op = "Router" /\ UnknownTypes(lastReg.pattern) # {}) =>
        /\ \E ty \in UnknownTypes(lastReg.pattern) :
               lastReg.panic = <<"invalid parameter type: ">> \o ty
        /\ routes = lastReg.before

\* C8, the case: /users/{id:uuid} has been registered on a router that
\* already has a route
C8_Witness ==
    /\ lastReg.op = "Router"
    /\ lastReg.pattern = TplUsersUuid
    /\ lastReg.panic # NoErr
    /\ lastReg.before # <<>>
    /\ routes = lastReg.before

--------------------------------------------------------------------------
(* Translation: pathPrefixToRegex called on templates made of literal       *)
(* segments and placeholders of the supported types, in either mode.        *)

SegVocab ==
    {SegUsers, SegPosts, SegIdInt, SegSlugStr, SegAboveFloat, SegPublishedBool,
     SegFromDate, SegPublishedAt, SegId}

\* "/" + segment, for each segment
RECURSIVE JoinSegs(_)
JoinSegs(segs) ==
    IF segs = <<>> THEN <<>> ELSE <<"/">> \o Head(segs) \o JoinSegs(Tail(segs))

SegLists == UNION {[1..n -> SegVocab] : n \in 1..MaxSegments}

\* the templates of TestPathPrefixToRegex
TplPostsSlug == JoinSegs(<<SegPosts, SegSlugStr>>)
TplPricesAbove == JoinSegs(<<SegPrices, SegAboveFloat>>)
TplArticlesFromTo == JoinSegs(<<SegArticles, SegFromDate, SegToDate>>)
TplArticlesPublished == JoinSegs(<<SegArticles, SegPublishedBool>>)
TplArticlesPublishedAt == JoinSegs(<<SegArticles, SegPublishedAt>>)

TestTemplates ==
    {TplRoot, TplUsersInt, TplPostsSlug, TplPricesAbove, TplArticlesFromTo,
     TplArticlesPublished, TplArticlesPublishedAt}

RegexTemplates ==
    {JoinSegs(l) : l \in SegLists} \cup {JoinSegs(l) \o <<"/">> : l \in SegLists}
        \cup TestTemplates

InitRegex ==
    /\ InitRouter
    /\ cTemplate \in RegexTemplates
    /\ cResult = NoResult
    /\ ctx = NewContext
    /\ InitHub
    /\ InitStore

NextRegex ==
    \/ \E b \in BOOLEAN : SetStrictSlash(b)
    \/ CompileTemplate

SpecRegex == InitRegex /\ [][NextRegex]_vars

\* the body the type table of the documentation assigns to a type; an
\* untyped placeholder is a str
BodyText(type) ==
    CASE type = TyInt -> "\\d+"
      [] type = TyStr -> "\\w+"
      [] type = TyFloat -> "\\d+\\.\\d+"
      [] type = TyBool -> "true|false"
      [] type = TyDate -> "\\d{4}-\\d{2}-\\d{2}"
      [] type = TyDatetime -> "\\d{4}-\\d{2}-\\d{2} \\d{2}:\\d{2}:\\d{2}"

\* what a segment of a template becomes: a placeholder a named capture group,
\* a literal itself
SegmentText(seg) ==
    IF Head(seg) = "{"
    THEN LET inner == SubSeq(seg, 2, Len(seg) - 1)
             colon == IndexFrom(inner, ":", 1)
             name == IF colon = 0 THEN inner ELSE SubSeq(inner, 1, colon - 1)
             type == IF colon = 0 THEN TyStr
                     ELSE SubSeq(inner, colon + 1, Len(inner))
         IN  "(?P<" \o ToStr(name) \o ">" \o BodyText(type) \o ")"
    ELSE ToStr(seg)

RECURSIVE JoinText(_)
JoinText(segs) ==
    IF segs = <<>> THEN ""
    ELSE IF Len(segs) = 1 THEN SegmentText(segs[1])
    ELSE SegmentText(segs[1]) \o "/" \o JoinText(Tail(segs))

\* the expression expected for a template: ^/, the segments translated and
\* joined with /, a final / when the template ends with one or the mode is
\* strict (never after the bare ^/), and $
ExpectedRegex(template, strict) ==
    LET segs == SelectSeq(Split(template, "/"), LAMBDA x : x # <<>>)
        slash == IF segs # <<>> /\ (strict \/ template[Len(template)] = "/")
                 THEN "/" ELSE ""
    IN  "^/" \o JoinText(segs) \o slash \o "$"

Compiled == cResult # NoResult

\* the seven cases of TestPathPrefixToRegex
TestCases ==
    {<<TplRoot, "^/$">>,
     <<TplUsersInt, "^/users/(?P<id>\\d+)$">>,
     <<TplPostsSlug, "^/posts/(?P<slug>\\w+)$">>,
     <<TplPricesAbove, "^/prices/(?P<above>\\d+\\.\\d+)$">>,
     <<TplArticlesFromTo,
       "^/articles/(?P<from>\\d{4}-\\d{2}-\\d{2})/(?P<to>\\d{4}-\\d{2}-\\d{2})$">>,
     <<TplArticlesPublished, "^/articles/(?P<published>true|false)$">>,
     <<TplArticlesPublishedAt,
       "^/articles/(?P<published_at>\\d{4}-\\d{2}-\\d{2} \\d{2}:\\d{2}:\\d{2})$">>}

\* C9: for a template of literal segments and placeholders of the supported
\* types pathPrefixToRegex returns, without error, ^ ... $ with every
\* placeholder replaced by the capture group of its name and type and every
\* literal segment copied; the seven cases of TestPathPrefixToRegex give the
\* expressions the test expects.
C9_TranslationTable ==
    Compiled =>
        /\ cResult.err = NoErr
        /\ Head(cResult.regex) = "^"
        /\ cResult.regex[Len(cResult.regex)] = "$"
        /\ ToStr(cResult.regex) = ExpectedRegex(cTemplate, cResult.strict)
        /\ \A c \in TestCases :
               (cTemplate = c[1] /\ ~cResult.strict) => ToStr(cResult.regex) = c[2]

\* C9, the case: /articles/{from:date}/{to:date} has been translated
C9_Witness ==
    /\ Compiled
    /\ cTemplate = TplArticlesFromTo
    /\ ~cResult.strict
    /\ ToStr(cResult.regex) =
           "^/articles/(?P<from>\\d{4}-\\d{2}-\\d{2})/(?P<to>\\d{4}-\\d{2}-\\d{2})$"

--------------------------------------------------------------------------
(* Groups: routes registered through a RouterGroup, then served.           *)

GroupPrefixes == {PrefixTest, PrefixSlash}
GroupPatterns == {PatRoot, PatPing}
GroupPaths == {PathRoot, PathPing, PathTest, PathTestPing}

NextGroup ==
    \/ \E b \in BOOLEAN : SetStrictSlash(b)
    \/ \E prefix \in GroupPrefixes : Group(prefix, <<>>)
    \/ \E gi \in 1..MaxGroups, m \in DispatchMethods, pat \in GroupPatterns :
           GroupVerb(gi, m, pat, <<>>)
    \/ Run
    \/ \E m \in DispatchMethods, p \in GroupPaths : ServeBegin(1, m, p)
    \/ ServeRun(1)
    \/ ServeReturn(1)

SpecGroup == Init /\ [][NextGroup]_vars

\* the last registration went through a RouterGroup and returned
GroupRegistered == lastReg.op = "RouterGroup" /\ lastReg.panic = NoErr

HasSegment(prefix) == \E j \in 1..Len(Split(prefix, "/")) : Split(prefix, "/")[j] # <<>>

\* what a group registration does to the table: one route more, of the verb's
\* method and the pattern of prefix+pattern; the routes before it as they were
GroupAppendsOne ==
    /\ Len(routes) = Len(lastReg.before) + 1
    /\ SubSeq(routes, 1, Len(lastReg.before)) = lastReg.before
    /\ routes[Len(routes)].method = lastReg.method
    /\ routes[Len(routes)].pattern =
           PathPrefixToRegexWith(lastReg.prefix \o lastReg.pattern,
                                 lastReg.strict).regex
    /\ (lastReg.prefix = PrefixTest /\ lastReg.pattern = PatRoot)
           => ToStr(routes[Len(routes)].pattern) = "^/test/$"

\* no served request for the pattern itself, without the prefix, has matched
\* the new route
BarePatternMisses ==
    \A i \in Slots :
        (Done(i) /\ reqs[i].path = lastReg.pattern
                 /\ reqs[i].method = lastReg.method)
        => /\ ~Candidate(Len(routes), reqs[i])
           /\ ~(reqs[i].outcome = "route" /\ reqs[i].idx = Len(routes))

\* C10 as stated: a RouterGroup verb appends exactly one route, of the verb's
\* method and the pattern compiled from prefix+pattern (/test and / give
\* ^/test/$), leaves the earlier routes unchanged, and a request for the
\* pattern without the prefix does not match the new route.
C10_GroupVerbAppends ==
    GroupRegistered => GroupAppendsOne /\ BarePatternMisses

\* C10, amended: the same, the last clause for a prefix that has at least one
\* non-empty path segment.
C10_GroupVerbAppendsPrefixed ==
    GroupRegistered =>
        /\ GroupAppendsOne
        /\ HasSegment(lastReg.prefix) => BarePatternMisses

\* C10, the case: the group /test has registered GET / on a router that has a
\* route already, and GET / has been served without matching it
C10_Witness ==
    /\ GroupRegistered
    /\ lastReg.prefix = PrefixTest
    /\ lastReg.pattern = PatRoot
    /\ lastReg.method = "GET"
    /\ lastReg.before # <<>>
    /\ ToStr(routes[Len(routes)].pattern) = "^/test/$"
    /\ \E i \in Slots :
           /\ Done(i)
           /\ reqs[i].path = PathRoot
           /\ reqs[i].method = "GET"
           /\ reqs[i].outcome # "route"

--------------------------------------------------------------------------
(* Group middleware: a group /api with or without middleware M, routes     *)
(* registered through it with or without their own middleware P, the       *)
(* global middleware A.                                                    *)

NextGroupMw ==
    \/ Use(<<"A">>)
    \/ \E mw \in {<<>>, <<"M">>} : Group(PrefixApi, mw)
    \/ \E gi \in 1..MaxGroups : GroupUse(gi, <<"M">>)
    \/ \E gi \in 1..MaxGroups, mw \in {<<>>, <<"P">>} :
           GroupVerb(gi, "GET", PatPing, mw)
    \/ Run
    \/ \E p \in {PathApiPing, PathPing} : ServeBegin(1, "GET", p)
    \/ ServeRun(1)
    \/ ServeReturn(1)

SpecGroupMw == Init /\ [][NextGroupMw]_vars

\* the positions of the trace where middleware mw starts, and where a
\* terminal handler runs
PreAt(trace, mw) ==
    {j \in 1..Len(trace) : trace[j].ev = "pre" /\ trace[j].mw = mw}

HandlerAt(trace) == {j \in 1..Len(trace) : trace[j].ev = "handler"}

PositionsIn(chain, mw) == {j \in 1..Len(chain) : chain[j] = mw}

\* C3: a route registered through a group that carries middleware M has M in
\* its chain: a request matching prefix+pattern runs M before the route's
\* handler, and the chain holds the group's middleware ahead of the
\* middleware given to the registration call.
C3_GroupMiddlewareRuns ==
    \A i \in Slots :
        (/\ Done(i)
         /\ GroupRegistered
         /\ reqs[i].outcome = "route"
         /\ reqs[i].idx = Len(routes))
        => \A g \in 1..Len(lastReg.gmw) :
               /\ \E a \in PreAt(reqs[i].trace, lastReg.gmw[g]) :
                      \A h \in HandlerAt(reqs[i].trace) : a < h
               /\ \A c \in 1..Len(lastReg.middleware) :
                      \E a \in PositionsIn(reqs[i].chain, lastReg.gmw[g]) :
                          \E b \in PositionsIn(reqs[i].chain, lastReg.middleware[c]) :
                              a < b

\* C3, the failing case: GET /api/ping has run the handler of the route the
\* group /api with middleware M registered, and M has not run
C3_GroupMiddlewareSkipped ==
    \E i \in Slots :
        /\ Done(i)
        /\ GroupRegistered
        /\ lastReg.gmw = <<"M">>
        /\ reqs[i].path = PathApiPing
        /\ reqs[i].outcome = "route"
        /\ reqs[i].idx = Len(routes)
        /\ HandlersRun(reqs[i].trace) = {routes[Len(routes)].handler}
        /\ PreAt(reqs[i].trace, "M") = {}

--------------------------------------------------------------------------
(* Middleware: global middleware A, B (one call of Use) and C (another),   *)
(* routes with their own middleware, requests served concurrently.         *)

NextMw ==
    \/ Use(<<"A", "B">>)
    \/ Use(<<"C">>)
    \/ \E t \in {TplRoot, PatPing}, mw \in {<<>>, <<"R1">>, <<"R2">>} :
           RouterVerb("GET", t, mw)
    \/ Run
    \/ \E i \in Slots, p \in {PathRoot, PathPing} : ServeBegin(i, "GET", p)
    \/ \E i \in Slots : ServeRun(i)
    \/ \E i \in Slots : ServeReturn(i)

SpecMw == Init /\ [][NextMw]_vars

\* the global middleware, in Use order
GlobalMiddleware == SubSeq(mwArr, 1, mwLen)

\* the events of L[1](L[2](...L[n](h)...)) when called
RECURSIVE NestedTrace(_, _)
NestedTrace(L, h) ==
    IF L = <<>> THEN <<Event("handler", "-", h)>>
    ELSE <<Event("pre", Head(L), 0)>> \o NestedTrace(Tail(L), h)
             \o <<Event("post", Head(L), 0)>>

\* C2: with L the global middleware in Use order followed by the route's
\* middleware, the handler invoked for a matched route is
\* L[1](L[2](...L[n](h)...)): the first registered middleware is outermost.
C2_FirstRegisteredOutermost ==
    \A i \in Slots :
        (Done(i) /\ reqs[i].outcome = "route")
        => reqs[i].trace =
               NestedTrace(GlobalMiddleware \o routes[reqs[i].idx].middleware,
                           routes[reqs[i].idx].handler)

\* C2, the failing case: after Use(A, B) a request has run B's pre-logic,
\* A's pre-logic, the handler, A's post-logic, B's post-logic
C2_LastRegisteredOutermost ==
    \E i \in Slots :
        /\ Done(i)
        /\ reqs[i].outcome = "route"
        /\ GlobalMiddleware = <<"A", "B">>
        /\ routes[reqs[i].idx].middleware = <<>>
        /\ reqs[i].trace =
               <<Event("pre", "B", 0), Event("pre", "A", 0),
                 Event("handler", "-", routes[reqs[i].idx].handler),
                 Event("post", "A", 0), Event("post", "B", 0)>>

\* C4: the chain run for a request is the global middleware followed by the
\* middleware of the route the request matched, whatever other requests are
\* in flight, and serving writes nothing into the route table or the storage
\* of the global middleware (the elements of its array past its length stay
\* as the registrations left them: nil).
C4_ChainsIndependent ==
    /\ \A i \in Slots :
           (Done(i) /\ reqs[i].outcome = "route")
           => reqs[i].chain = GlobalMiddleware \o routes[reqs[i].idx].middleware
    /\ \A j \in (mwLen + 1)..Len(mwArr) : mwArr[j] = NilMw

\* C4, the failing case: a request that matched a route with middleware R1
\* has run the middleware R2 of the route another request matched
C4_ForeignMiddlewareRun ==
    \E i \in Slots :
        /\ Done(i)
        /\ reqs[i].outcome = "route"
        /\ routes[reqs[i].idx].middleware = <<"R1">>
        /\ PreAt(reqs[i].trace, "R2") # {}
        /\ PreAt(reqs[i].trace, "R1") = {}

--------------------------------------------------------------------------
(* The response sink: calls made on one Context, in any order.             *)

WriterStatuses == {0, StatusOK, 404}

WriterOps ==
    {<<"Status", st>> : st \in WriterStatuses}
        \cup {<<"String", "text">>, <<"HTML", "<p>">>, <<"AbortRequest">>}
        \cup {<<"Abort", st, "message">> : st \in {401, StatusInternalServerError}}

NextWriter == \E op \in WriterOps : CtxCall(op)

SpecWriter == Init /\ [][NextWriter]_vars

\* C11: of the WriteHeader calls made on a request's Writer only the first
\* reaches the underlying writer and fixes the recorded status, whatever the
\* statuses passed; every later call is a no-op (so a Status after an Abort
\* changes nothing).
C11_FirstWriteHeaderWins ==
    ctx.hist.calls >= 1 =>
        /\ ctx.rw.calls = 1
        /\ ctx.statusCode = ctx.hist.first

\* C11, the failing case: after two WriteHeader calls, the first with a valid
\* status, both have reached the underlying writer and the recorded status
\* is no longer the status of the first, which is the one sent
C11_LaterCallGoesThrough ==
    /\ ctx.hist.calls = 2
    /\ ctx.rw.calls = 2
    /\ ctx.hist.first = StatusOK
    /\ ctx.rw.status = StatusOK
    /\ ctx.statusCode = 0

\* C12: whatever was written through the sink, once a header is sent the
\* status StatusCode() reports is the status sent on the underlying writer,
\* also when the body is written before any WriteHeader.
C12_StatusCodeIsSent ==
    ctx.rw.wroteHeader => StatusCode(ctx) = ctx.rw.status

\* C12, the failing case: the body was written with no WriteHeader before it,
\* 200 has been sent and StatusCode() reports 0
C12_BodyFirstReportsZero ==
    /\ ctx.hist.calls = 0
    /\ ctx.rw.body = <<"text">>
    /\ ctx.rw.status = StatusOK
    /\ StatusCode(ctx) = 0

--------------------------------------------------------------------------
(* The hub: connections, pumps, broadcasts and the quit function, every     *)
(* event handled by the loop of Run.                                        *)

PumpNames == {"read", "write"}

NextHub ==
    \/ HubRun
    \/ \E c \in ClientIds : HubRegister(c)
    \/ \E c \in ClientIds, pump \in PumpNames : HubUnregister(c, pump)
    \/ \E c \in ClientIds, m \in Messages : HubBroadcast(c, m)
    \/ \E c \in ClientIds : PumpDrain(c)
    \/ Quit
    \/ HubShutdown

SpecHub == Init /\ [][NextHub]_vars

\* the select of Run chooses at random among the cases that are ready, so a
\* closed done is not passed over for ever
SpecHubLive == Init /\ [][NextHub]_vars /\ WF_vars(HubShutdown)

\* the hub, with an application goroutine that calls BroadCastMessage
NextHubApp ==
    \/ HubRun
    \/ \E c \in ClientIds : HubRegister(c)
    \/ \E c \in ClientIds, pump \in PumpNames : HubUnregister(c, pump)
    \/ \E c \in ClientIds, m \in Messages : HubBroadcast(c, m)
    \/ \E c \in ClientIds : PumpDrain(c)
    \/ Quit
    \/ HubShutdown
    \/ \E m \in Messages : AppBroadcastStart(m)
    \/ \E c \in ClientIds : AppVisit(c)
    \/ AppDelete
    \/ AppBroadcastEnd

SpecHubApp == Init /\ [][NextHubApp]_vars

WasFull(c) == hubLog.lens[c] = SendCap

\* C13: when the loop broadcasts a message, every client whose queue is full
\* is removed from the set and its queue closed exactly once, every other
\* client of the set gets the message, and the loop goes on (it has not
\* blocked).
C13_Backpressure ==
    hubLog.op = "broadcast" =>
        /\ hubPc = "running"
        /\ \A c \in hubLog.clients :
               IF WasFull(c)
               THEN /\ c \notin clients
                    /\ send[c].closes = 1
                    /\ Len(send[c].buf) = SendCap
               ELSE /\ c \in clients
                    /\ send[c].closes = 0
                    /\ Len(send[c].buf) = hubLog.lens[c] + 1
                    /\ send[c].buf[Len(send[c].buf)] = hubLog.arg

\* C13, the case: a broadcast has dropped a client with a full queue and
\* delivered to another client
C13_Witness ==
    /\ hubLog.op = "broadcast"
    /\ \E c \in hubLog.clients : WasFull(c) /\ c \notin clients
    /\ \E c \in hubLog.clients :
           ~WasFull(c) /\ send[c].buf[hubLog.lens[c] + 1] = hubLog.arg

\* C14: whatever events the loop handles, every queue is closed at most
\* once, an unregister for a client that is not in the set changes nothing,
\* every client of the set has an open queue, and the loop never sends on a
\* closed queue nor closes one twice.
C14_ClosedAtMostOnce ==
    /\ \A c \in ClientIds : send[c].closes <= 1
    /\ \A c \in clients : send[c].made /\ send[c].closes = 0
    /\ hubPc # "panicked"
    /\ (hubLog.op = "unregister" /\ hubLog.arg \notin hubLog.clients)
           => ~hubLog.changed /\ clients = hubLog.clients

\* C14, the case: the second pump of a client has asked to unregister it
\* after the client was removed and its queue closed
C14_Witness ==
    /\ hubLog.op = "unregister"
    /\ hubLog.arg \notin hubLog.clients
    /\ send[hubLog.arg].closes = 1
    /\ pumps[hubLog.arg] = {}

\* C15: only the goroutine of Run changes the client set or closes a queue,
\* and no other goroutine is inside the client set while the loop runs.
C15_OnlyRunTouchesClients ==
    /\ hubLog.writers \subseteq {"Run"}
    /\ ~hubLog.shared

\* C15, the failing case: an application goroutine in BroadCastMessage has
\* closed a queue while Run was active, and the loop has then panicked on it
C15_AppRacesLoop ==
    /\ "App" \in hubLog.writers
    /\ hubLog.shared
    /\ hubPc = "panicked"

\* C16: however often quit is called, done is closed exactly once.
C16_QuitIdempotent ==
    /\ done <= 1
    /\ hubLog.quits >= 1 => done = 1

\* C16, the case: quit has been called more than once
C16_Witness == hubLog.quits >= 2 /\ done = 1 /\ once

\* C17: once quit is called while Run is active the loop eventually stops;
\* when it has stopped the set is empty and every queue that was made has
\* been closed exactly once; after that it handles no event.
C17_ShutdownCompletes ==
    /\ (done > 0 /\ hubPc = "running") ~> (hubPc = "stopped")
    /\ [](hubPc = "stopped" =>
             /\ clients = {}
             /\ \A c \in ClientIds : send[c].made => send[c].closes = 1)
    /\ [][hubPc = "stopped" =>
             /\ hubPc' = "stopped"
             /\ clients' = clients
             /\ \A c \in ClientIds : send'[c].closes = send[c].closes
             /\ hubLog'.op \in {hubLog.op, "drain"}]_vars

\* C17, the case: the loop has stopped on quit with clients still in the set
C17_Witness ==
    /\ hubPc = "stopped"
    /\ hubLog.op = "shutdown"
    /\ hubLog.clients # {}
    /\ clients = {}
    /\ \A c \in hubLog.clients : send[c].closes = 1

--------------------------------------------------------------------------
(* A router made by Default(), routes with middleware of their own, and     *)
(* handlers that write, abort and panic.                                    *)

ChainMiddleware == {<<>>, <<"PanicMw">>, <<"Guard">>}

PanicValues == {"boom1", "boom2", PanicInt}

HandlerScripts ==
    {<<>>, <<<<"String", "ok">>>>, <<<<"AbortRequest">>, <<"String", "ok">>>>}
        \cup {<<<<"panic", v>>>> : v \in PanicValues}
        \cup {<<<<"String", "ok">>, <<"panic", v>>>> : v \in PanicValues}

NextChain ==
    \/ Default
    \/ \E mw \in ChainMiddleware : Use(mw)
    \/ \E mw \in ChainMiddleware : RouterVerb("GET", PatRoot, mw)
    \/ Run
    \/ \E i \in Slots : ServeBegin(i, "GET", PathRoot)
    \/ \E i \in Slots, script \in HandlerScripts : ServeChain(i, script)
    \/ \E i \in Slots : ServeReturn(i)

SpecChain == Init /\ [][NextChain]_vars

\* the Context is that of a request served by a router made by Default()
OnDefaultRouter ==
    /\ ctx.hist.trace # <<>>
    /\ Len(ctx.hist.chain) >= 2
    /\ SubSeq(ctx.hist.chain, 1, 2) = <<"Recovery", "Logger">>

\* the script with v as the value of its panics
WithPanicValue(script, v) ==
    [k \in 1..Len(script) |->
        IF script[k][1] = "panic" THEN <<"panic", v>> ELSE script[k]]

\* the response of the request, had its handler panicked with v
ResponseWith(v) ==
    Exec(ctx.hist.chain, WithPanicValue(ctx.hist.script, v),
         [NewContext EXCEPT !.hist.chain = ctx.hist.chain,
                            !.hist.script = WithPanicValue(ctx.hist.script, v)]).rw

\* C18: on a router made by Default() no panic of a route's handler or of a
\* middleware of its chain leaves ServeHTTP: Recovery catches it.
C18_DefaultCatchesPanics == OnDefaultRouter => ctx.panic = NoPanic

\* C18, the failing case: a middleware given with the route has panicked on
\* a router made by Default(), Recovery has not run, and the panic has left
\* ServeHTTP
C18_RouteMiddlewarePanicEscapes ==
    /\ OnDefaultRouter
    /\ ctx.hist.chain = <<"Recovery", "Logger", "PanicMw">>
    /\ ctx.panic = "boom1"
    /\ ctx.hist.recovered = NoPanic
    /\ \A k \in 1..Len(ctx.hist.trace) : ctx.hist.trace[k].mw # "Recovery"

\* C19: when Recovery has caught a panic the status sent is 500 whatever
\* the handler wrote before, and the body sent is the same whatever the
\* value of the panic.
C19_GenericFiveHundred ==
    ctx.hist.recovered # NoPanic =>
        /\ ctx.rw.status = StatusInternalServerError
        /\ \A v \in PanicValues : ResponseWith(v).body = ctx.rw.body

\* C19, the failing case: the handler wrote its body and panicked; Recovery
\* caught the panic, the status sent is 200 and the body ends with the
\* message of the panic
C19_PanicMessageSent ==
    /\ ctx.hist.recovered = "boom1"
    /\ ctx.rw.status = StatusOK
    /\ ctx.rw.body = <<"ok", "boom1">>
    /\ ResponseWith("boom2").body = <<"ok", "boom2">>

\* C20: once the Context is aborted no further middleware or handler of
\* the chain starts to run.
C20_AbortStopsChain ==
    \A k \in 1..Len(ctx.hist.trace) : ~ctx.hist.trace[k].aborted

\* C20, the failing case: a middleware has aborted the request with 401 and
\* the terminal handler has run after it and written its body
C20_HandlerRunsAfterAbort ==
    /\ ctx.aborted
    /\ \E k \in 1..Len(ctx.hist.trace) :
           ctx.hist.trace[k].ev = "handler" /\ ctx.hist.trace[k].aborted
    /\ ctx.rw.status = 401
    /\ ctx.rw.body = <<"unauthorized", "ok">>

--------------------------------------------------------------------------
(* The key/value store of one Context, used by the goroutines of a request. *)

KvOps == {"Set", "Get", "MustGet"}

NextStore ==
    \/ \E g \in Goroutines, op \in KvOps, k \in Keys, v \in Values :
           KvCall(g, op, k, v)
    \/ \E g \in Goroutines : KvLock(g)
    \/ \E g \in Goroutines : KvAccess(g)
    \/ \E g \in Goroutines : KvReturn(g)

SpecStore == Init /\ [][NextStore]_vars

\* the goroutine is between the return of its Lock or RLock and its unlock
InStore(g) == gor[g].pc \in {"in", "defer"}

\* C21: while a goroutine is inside a Set no other goroutine is inside a
\* Set, Get or MustGet of the store, and a Get or MustGet of k that started
\* after a Set(k, v) had returned, with no Set of k since, has read (v, true).
C21_StoreIsSafe ==
    /\ \A g, h \in Goroutines :
           (g # h /\ InStore(g) /\ gor[g].op = "Set") => ~InStore(h)
    /\ \A g \in Goroutines :
           (gor[g].pc = "defer" /\ gor[g].op # "Set"
                /\ gor[g].expect \notin {NoExpect, Absent})
               => gor[g].res = [value |-> gor[g].expect, ok |-> TRUE]

\* C21, the case: a Get that started after a Set of its key had returned has
\* read the value, while another goroutine waits in Lock for a Set
C21_Witness ==
    \E g, h \in Goroutines :
        /\ gor[g].pc = "defer" /\ gor[g].op = "Get"
        /\ gor[g].expect \in Values
        /\ gor[g].res = [value |-> gor[g].expect, ok |-> TRUE]
        /\ gor[h].pc = "lock" /\ gor[h].op = "Set"

\* C29: the lock is held only by goroutines that are inside a call, so a
\* MustGet that panicked has given its read lock back once the panic has
\* left the call, and the store is free when every goroutine is idle.
C29_PanicReleasesLock ==
    /\ \A g \in Goroutines :
           (g \in mu.r \/ mu.w = g) => InStore(g)
    /\ (\A g \in Goroutines : gor[g].pc = "idle") => CanLock(mu)

\* C29, the case: a panic of MustGet has left its call and a goroutine has
\* since taken the lock for writing in a Set
C29_Witness ==
    \E g \in Goroutines :
        /\ mu.recovered
        /\ gor[g].op = "Set"
        /\ gor[g].pc = "defer"
        /\ mu.w = g

--------------------------------------------------------------------------
(* IntParam called on parameter maps of every kind: the name absent or      *)
(* present, the value a number, not a number, or a number too large.        *)

NamePage == <<"p", "a", "g", "e">>

TextAlphabet == {"0", "7", "-", "+", "a"}

ShortTexts == UNION {[1..n -> TextAlphabet] : n \in 0..MaxTextLen}

Text20Nines == [k \in 1..20 |-> "9"]

LongTexts ==
    {MaxIntMag, MinIntMag, <<"-">> \o MinIntMag, <<"-">> \o MaxIntMag,
     <<"0", "0">> \o MaxIntMag, Text20Nines, <<"-">> \o Text20Nines,
     <<"+", "4", "2">>, <<"4", "2">>}

ParamTexts == ShortTexts \cup LongTexts

ParamMaps ==
    {EmptyMap} \cup {OneParam(NameId, v) : v \in ParamTexts}
        \cup {MapSet(OneParam(NamePage, <<"7">>), NameId, v) : v \in LongTexts}

NextIntParam ==
    \E params \in ParamMaps, key \in {NameId, NamePage} : IntParamCall(params, key)

SpecIntParam == Init /\ [][NextIntParam]_vars

\* the text is a decimal integer: an optional sign, then digits
IsDecimal(v) ==
    /\ v # <<>>
    /\ LET body == IF Head(v) \in {"+", "-"} THEN Tail(v) ELSE v
       IN  body # <<>> /\ AllIn(body, Digits)

\* the integer n is the one the decimal text v denotes
Denotes(v, n) ==
    LET body == IF Head(v) \in {"+", "-"} THEN Tail(v) ELSE v
    IN  /\ \E z \in 0..Len(body) - 1 :
               /\ \A k \in 1..z : body[k] = "0"
               /\ n.mag = SubSeq(body, z + 1, Len(body))
               /\ (Len(n.mag) > 1 => Head(n.mag) # "0")
        /\ n.neg = (Head(v) = "-" /\ n.mag # <<"0">>)

\* the value is one an int of 64 bits can hold
InRange(n) == MagLeq(n.mag, IF n.neg THEN MinIntMag ELSE MaxIntMag)

\* the decimal text v denotes an integer an int can hold
Parses(v) ==
    /\ IsDecimal(v)
    /\ LET body == IF Head(v) \in {"+", "-"} THEN Tail(v) ELSE v
       IN  InRange(IntValue(Head(v) = "-", StripZeros(body)))

--------------------------------------------------------------------------
(* Requests for /users/{id:int} whose handler reads id with IntParam, one   *)
(* request at a time.                                                       *)

PrefixUsers == <<"/", "u", "s", "e", "r", "s", "/">>

IntPaths ==
    {PrefixUsers \o v :
        v \in {<<"4", "2">>, <<"0", "0", "7">>, <<"a", "b", "c">>, <<"4", "a">>,
               MaxIntMag, MinIntMag, Text20Nines}}

NextInt ==
    \/ \E b \in BOOLEAN : SetStrictSlash(b)
    \/ RouterVerb("GET", TplUsersInt, <<>>)
    \/ Run
    \/ \E path \in IntPaths : ServeBegin(1, "GET", path)
    \/ ServeIntParam(1, NameId)
    \/ ServeReturn(1)

SpecInt == Init /\ [][NextInt]_vars

\* the handler of a matched request has read the placeholder id
ReadId == intCall.called /\ intCall.key = NameId /\ NameId \in DOMAIN intCall.params

\* C28: for a request matched by /users/{id:int} IntParam(id) succeeds and
\* returns the integer the captured digits denote, however many they are.
C28_IntParamNeverFails ==
    ReadId =>
        /\ intCall.err = NoErr
        /\ Denotes(intCall.params[NameId], intCall.n)

\* C28 as it holds: the capture is a non-empty string of digits; when the
\* number it denotes is at most math.MaxInt64 IntParam returns it with no
\* error, and when it is larger IntParam returns ErrInvalidParam.
C28_IntParamInRange ==
    ReadId =>
        LET v == intCall.params[NameId]
        IN  /\ v # <<>> /\ AllIn(v, Digits)
            /\ IF MagLeq(StripZeros(v), MaxIntMag)
               THEN intCall.err = NoErr /\ Denotes(v, intCall.n)
               ELSE intCall.err = ErrInvalidParam

\* C28, the case: /users/9223372036854775808 has matched the route and
\* IntParam(id) has returned ErrInvalidParam
C28_Witness ==
    /\ ReadId
    /\ intCall.params[NameId] = MinIntMag
    /\ intCall.err = ErrInvalidParam
    /\ \E i \in Slots : Done(i) /\ reqs[i].outcome = "route"
                          /\ reqs[i].path = PrefixUsers \o MinIntMag

--------------------------------------------------------------------------
(* pathPrefixToRegex called twice for one template while the program       *)
(* registers a route, assigns gora.StrictSlash, starts and serves.          *)

PureTemplates == {TplRoot, TplUsersInt, TplUsersAny, TplArticlesFromTo}

InitPure ==
    /\ InitRouter
    /\ cTemplate \in PureTemplates
    /\ cResult = NoResult
    /\ ctx = NewContext
    /\ InitHub
    /\ InitStore

NextPure ==
    \/ \E b \in BOOLEAN : SetStrictSlash(b)
    \/ RouterVerb("GET", PatPing, <<>>)
    \/ Run
    \/ \E path \in {PathPing, PathUsers42} : ServeBegin(1, "GET", path)
    \/ ServeRun(1)
    \/ ServeReturn(1)
    \/ CompileTemplate
    \/ CompileAgain

SpecPure == InitPure /\ [][NextPure]_vars

CompiledTwice == cResult # NoResult /\ cResult.again

SameAsFirst == cResult.regex = cResult.first.regex /\ cResult.err = cResult.first.err

\* a step that is a call of pathPrefixToRegex
CompileStep == cResult' # cResult

C23_ModeChanged ==
    /\ CompiledTwice
    /\ cTemplate = TplUsersInt
    /\ ~cResult.first.strict /\ cResult.strict
    /\ cResult.err = NoErr /\ cResult.first.err = NoErr
    /\ cResult.regex # cResult.first.regex

--------------------------------------------------------------------------
(* Strict-slash mode: two requests, one for a path and one for the path     *)
(* followed by /.                                                           *)

StrictTemplates == {TplRoot, TplUsersInt}

StrictPaths == {PathEmpty, PathRoot, PathUsers42, PathUsers42Slash}

NextStrict ==
    \/ \E b \in BOOLEAN : SetStrictSlash(b)
    \/ \E t \in StrictTemplates : RouterVerb("GET", t, <<>>)
    \/ Run
    \/ \E path \in StrictPaths : ServeBegin(1, "GET", path)
    \/ \E path \in StrictPaths : ServeBegin(2, "GET", path \o <<"/">>)
    \/ \E i \in {1, 2} : ServeRun(i)
    \/ \E i \in {1, 2} : ServeReturn(i)

SpecStrict == Init /\ [][NextStrict]_vars

\* strict-slash mode was on at every registration and is on now
StrictThroughout ==
    /\ StrictSlash
    /\ \A k \in 1..Len(routes) :
           \E t \in StrictTemplates :
               routes[k].pattern = PathPrefixToRegexWith(t, TRUE).regex

EndsInSlash(regex) ==
    Len(regex) >= 2 /\ regex[Len(regex)] = "$" /\ regex[Len(regex) - 1] = "/"

\* request j is for the path of request i followed by /
SlashTwin(i, j) ==
    /\ Done(i) /\ Done(j)
    /\ reqs[i].method = reqs[j].method
    /\ reqs[j].path = reqs[i].path \o <<"/">>

\* C24: with strict-slash mode on at registration and at serving every
\* compiled pattern ends in / before the anchor, and for every request path
\* p, the empty path and / included, p and p followed by / select the same
\* route, the effective path being computed without failure.
C24_SlashInsensitive ==
    StrictThroughout =>
        /\ \A k \in 1..Len(routes) : EndsInSlash(routes[k].pattern)
        /\ \A i, j \in Slots :
               SlashTwin(i, j) =>
                   /\ reqs[i].outcome # "panicPath"
                   /\ reqs[j].outcome # "panicPath"
                   /\ reqs[i].outcome = reqs[j].outcome
                   /\ reqs[i].idx = reqs[j].idx

\* C24, the failing case: with / registered in strict mode the request for
\* the empty path has ended in an index-out-of-range panic while the request
\* for / has been given to the route
C24_EmptyPathPanics ==
    /\ StrictThroughout
    /\ \E i, j \in Slots :
           /\ SlashTwin(i, j)
           /\ reqs[i].path = PathEmpty
           /\ reqs[i].outcome = "panicPath"
           /\ reqs[j].outcome = "route"

--------------------------------------------------------------------------
(* Short-circuit: global and route middleware, some of which return         *)
(* without calling next, requests served concurrently.                      *)

NextStop ==
    \/ Use(<<"A", "B">>)
    \/ Use(<<"C">>)
    \/ Use(<<"S">>)
    \/ \E t \in {TplRoot, PatPing}, mw \in {<<>>, <<"R1">>, <<"S">>} :
           RouterVerb("GET", t, mw)
    \/ Run
    \/ \E i \in Slots, p \in {PathRoot, PathPing} : ServeBegin(i, "GET", p)
    \/ \E i \in Slots : ServeRun(i)
    \/ \E i \in Slots : ServeReturn(i)

SpecStop == Init /\ [][NextStop]_vars

\* the innermost position of L whose middleware does not call next, 0 if all do
StopAt(L) ==
    LET S == {k \in 1..Len(L) : L[k] \in Stoppers}
    IN  IF S = {} THEN 0 ELSE CHOOSE k \in S : \A m \in S : m <= k

Reverse(q) == [j \in 1..Len(q) |-> q[Len(q) + 1 - j]]

\* the middleware names of the events ev of a trace, in order
NamesOf(trace, ev) ==
    LET t == SelectSeq(trace, LAMBDA e : e.ev = ev)
    IN  [j \in 1..Len(t) |-> t[j].mw]

\* C25: with L the global middleware followed by the middleware of the
\* matched route (the last of L outermost), and L[s] the outermost
\* middleware that returns without calling next: the layers outside L[s] and
\* L[s] itself are entered, outermost first, and each runs to completion; no
\* layer inside L[s] and not the terminal handler runs; when every
\* middleware calls next all of L and the handler run.
C25_ShortCircuit ==
    \A i \in Slots :
        (Done(i) /\ reqs[i].outcome = "route")
        => LET L == GlobalMiddleware \o routes[reqs[i].idx].middleware
               s == StopAt(L)
               ran == IF s = 0 THEN L ELSE SubSeq(L, s, Len(L))
           IN  /\ NamesOf(reqs[i].trace, "pre") = Reverse(ran)
               /\ NamesOf(reqs[i].trace, "post") = ran
               /\ (HandlerAt(reqs[i].trace) # {}) <=> (s = 0)

\* C25, the failing case: every middleware of the request's chain (global
\* A, B, C and the route's R1) calls next, and yet R1 and the handler never
\* ran: the request ran the middleware S of the route of a concurrent request
C25_RouteMiddlewareNotInvoked ==
    \E i \in Slots :
        /\ Done(i)
        /\ reqs[i].outcome = "route"
        /\ GlobalMiddleware = <<"A", "B", "C">>
        /\ routes[reqs[i].idx].middleware = <<"R1">>
        /\ PreAt(reqs[i].trace, "R1") = {}
        /\ PreAt(reqs[i].trace, "S") # {}
        /\ HandlerAt(reqs[i].trace) = {}

\* C25, without interference: for a route with middleware S under global
\* A, B the outermost layer is S; it has run to completion, and A, B and the
\* handler have not run
C25_StoppedAtRouteMiddleware ==
    \E i \in Slots :
        /\ Done(i)
        /\ reqs[i].outcome = "route"
        /\ NamesOf(reqs[i].trace, "pre") = <<"S">>
        /\ GlobalMiddleware = <<"A", "B">>
        /\ HandlerAt(reqs[i].trace) = {}

--------------------------------------------------------------------------
(* The not-found handler: NotFound called among calls of Use, then matched  *)
(* and unmatched requests.                                                  *)

NextNotFound ==
    \/ \E mw \in {"A", "B"} : Use(<<mw>>)
    \/ \E mw \in {<<>>, <<"N">>} : NotFound(mw)
    \/ RouterVerb("GET", TplRoot, <<"R1">>)
    \/ Run
    \/ \E i \in Slots, p \in {PathRoot, PathPing} : ServeBegin(i, "GET", p)
    \/ \E i \in Slots : ServeRun(i)
    \/ \E i \in Slots : ServeReturn(i)

SpecNotFound == Init /\ [][NextNotFound]_vars

\* every global middleware has been entered, before the handler
GlobalsRan(trace) ==
    \A g \in 1..mwLen :
        \E a \in PreAt(trace, mwArr[g]) : \A h \in HandlerAt(trace) : a < h

\* C26: the not-found handler is wrapped once with exactly the global
\* middleware registered when NotFound was called; global middleware added
\* later wraps every matched route and never the not-found handler.
C26_GlobalsOfTheMoment ==
    \A i \in Slots :
        /\ (Done(i) /\ reqs[i].outcome = "notFound")
           => reqs[i].trace = NestedTrace(Reverse(notFound.at.global), 0)
        /\ (Done(i) /\ reqs[i].outcome = "route") => GlobalsRan(reqs[i].trace)

\* C26 as it holds: the not-found handler is wrapped once with the global
\* middleware registered when NotFound was called followed by the middleware
\* given to the NotFound call itself (the last of them outermost); global
\* middleware added later wraps every matched route and never the not-found
\* handler.
C26_GlobalsAndOwn ==
    \A i \in Slots :
        /\ (Done(i) /\ reqs[i].outcome = "notFound")
           => reqs[i].trace =
                  NestedTrace(Reverse(notFound.at.global \o notFound.at.given), 0)
        /\ (Done(i) /\ reqs[i].outcome = "route") => GlobalsRan(reqs[i].trace)

\* C26, the case: NotFound was called with A registered, B was registered
\* afterwards, and an unmatched request has run A and the not-found handler
\* and not B
C26_Witness ==
    \E i \in Slots :
        /\ Done(i)
        /\ reqs[i].outcome = "notFound"
        /\ notFound.at.global = <<"A">>
        /\ GlobalMiddleware = <<"A", "B">>
        /\ PreAt(reqs[i].trace, "A") # {}
        /\ PreAt(reqs[i].trace, "B") = {}
        /\ HandlerAt(reqs[i].trace) # {}

\* C26, the failing case: NotFound(h, N) with A registered; an unmatched
\* request has run N as well as A
C26_OwnMiddlewareRan ==
    \E i \in Slots :
        /\ Done(i)
        /\ reqs[i].outcome = "notFound"
        /\ notFound.at.global = <<"A">>
        /\ PreAt(reqs[i].trace, "N") # {}

--------------------------------------------------------------------------
(* Templates as a group hands them to pathPrefixToRegex: a prefix and a     *)
(* pattern concatenated, with and without slashes at the joint.             *)

PrefixApiSlash == PrefixApi \o <<"/">>
PatPingBare == <<"p", "i", "n", "g">>

RawPrefixes == {<<>>, PrefixSlash, PrefixApi, PrefixApiSlash}
RawPatterns ==
    {<<>>, PatRoot, PatPing, PatPingBare, PatPing \o <<"/">>, TplUsersInt,
     Tail(TplUsersInt)}

RawTemplates ==
    {GroupPattern([prefix |-> pre, middleware |-> <<>>], pat) :
        pre \in RawPrefixes, pat \in RawPatterns}

InitRaw ==
    /\ InitRouter
    /\ cTemplate \in RawTemplates
    /\ cResult = NoResult
    /\ ctx = NewContext
    /\ InitHub
    /\ InitStore

NextRaw ==
    \/ \E b \in BOOLEAN : SetStrictSlash(b)
    \/ CompileTemplate
    \/ CompileAgain

SpecRaw == InitRaw /\ [][NextRaw]_vars

RawSegText(seg) == IF seg = <<>> THEN "" ELSE SegmentText(seg)

\* the segments translated and rejoined with / where the template has /
RECURSIVE JoinRaw(_)
JoinRaw(segs) ==
    IF Len(segs) = 1 THEN RawSegText(segs[1])
    ELSE RawSegText(segs[1]) \o "/" \o JoinRaw(Tail(segs))

AsWritten(template) == "^" \o JoinRaw(Split(template, "/")) \o "$"

\* the template begins with / and has no two / in a row
Canonical(template) ==
    /\ template # <<>>
    /\ Head(template) = "/"
    /\ \A j \in 1..(Len(template) - 1) : ~(template[j] = "/" /\ template[j + 1] = "/")

CompiledDefault == Compiled /\ ~cResult.strict

\* C27: with strict-slash off the expression is ^, the segments of the
\* template translated one by one and rejoined with / exactly where the
\* template has /, and $: empty segments and a missing leading slash are
\* preserved.
C27_SlashesAsWritten ==
    CompiledDefault =>
        /\ cResult.err = NoErr
        /\ ToStr(cResult.regex) = AsWritten(cTemplate)

\* C27 as it holds: with strict-slash off the expression is ^/, the
\* non-empty segments translated one by one and joined with single /, a
\* final / when the template ends with one after a non-empty segment, and
\* $.  Empty segments are dropped and a leading slash is supplied; the
\* expression has its slashes where the template has them exactly when the
\* template begins with / and has no two / in a row.
C27_SlashesNormalised ==
    CompiledDefault =>
        /\ cResult.err = NoErr
        /\ ToStr(cResult.regex) = ExpectedRegex(cTemplate, FALSE)
        /\ (ToStr(cResult.regex) = AsWritten(cTemplate)) <=> Canonical(cTemplate)

\* C27, the case: prefix /api/ and pattern /ping, concatenated to
\* /api//ping, have compiled to ^/api/ping$
C27_Witness ==
    /\ CompiledDefault
    /\ cTemplate = PrefixApiSlash \o PatPing
    /\ ToStr(cResult.regex) = "^/api/ping$"

\* C27, the case of no leading slash: ping has compiled to ^/ping$
C27_LeadingSlashSupplied ==
    /\ CompiledDefault
    /\ cTemplate = PatPingBare
    /\ ToStr(cResult.regex) = "^/ping$"

--------------------------------------------------------------------------
(* The hub with its senders: a goroutine that has reached a send on          *)
(* register, unregister or broadcast waits there until the loop receives.    *)

NextHubSend ==
    \/ HubRun
    \/ \E c \in ClientIds : HubConnect(c)
    \/ \E c \in ClientIds : HubAccept(c)
    \/ \E c \in ClientIds, pump \in PumpNames : PumpExit(c, pump)
    \/ \E c \in ClientIds, pump \in PumpNames : HubTakeUnregister(c, pump)
    \/ \E c \in ClientIds : PumpSay(c)
    \/ \E c \in ClientIds, m \in Messages : HubTakeBroadcast(c, m)
    \/ \E c \in ClientIds : PumpDrain(c)
    \/ Quit
    \/ HubShutdown

\* the goroutine of Run is scheduled, and its select does not pass over a
\* case that stays ready: a waiting sender is served while the loop runs
LoopFair ==
    /\ WF_vars(HubRun)
    /\ WF_vars(HubShutdown)
    /\ \A c \in ClientIds : WF_vars(HubAccept(c))
    /\ \A c \in ClientIds, pump \in PumpNames : WF_vars(HubTakeUnregister(c, pump))
    /\ \A c \in ClientIds, m \in Messages : WF_vars(HubTakeBroadcast(c, m))

SpecHubSend == Init /\ [][NextHubSend]_vars /\ LoopFair

\* the sends of the goroutines of client c that wait for the loop
Waiting(c) == pumps[c] \cap {"serve", "readBye", "writeBye", "readSay"}

\* C30: no goroutine stays for ever at a send on a hub channel: a
\* registration, an unregister request and a broadcast submission are each
\* taken eventually, also when made while or after Run ends.
C30_NoSenderBlocksForever ==
    \A c \in ClientIds :
        \A w \in {"serve", "readBye", "writeBye", "readSay"} :
            (w \in pumps[c]) ~> (w \notin pumps[c])

\* C30, the failing case: Run has returned on quit and ServeHTTP is at
\* register <- client, which nothing will receive
C30_RegisterAfterStop ==
    /\ hubPc = "stopped"
    /\ \E c \in ClientIds : "serve" \in pumps[c]

\* C30, the failing case of a pump: Run has returned and closed the queue of
\* a client whose write pump is at unregister <- client
C30_UnregisterAfterStop ==
    /\ hubPc = "stopped"
    /\ \E c \in ClientIds : send[c].closes = 1 /\ "writeBye" \in pumps[c]
====
